---------------------------- MODULE Spec2Model ----------------------------
(***************************************************************************)
(* State-machine model of the MATB-II scenario generator (matbexp.matbii): *)
(* the time codec, the constraint checker, the rejection-sampling          *)
(* scheduler, the task materializer, the session framing and the           *)
(* serializer.  Random draws of numpy's global generator are modelled as   *)
(* nondeterministic choices over the values the call can return.           *)
(* Texts (time strings, stems) are sequences of one-character strings.     *)
(***************************************************************************)
EXTENDS Integers, Sequences, FiniteSets, TLC

VARIABLES
    event_type,          \* _remove_events: the tag of the events to remove
    text_file,           \* the lines of the text file of the call, in a 1-tuple; <<>> without one
    pc,                  \* position of the program being run
    seconds,             \* _format_seconds: its argument (None when a text is the input)
    time_string,         \* the time text handed to _parse_time_string
    total_seconds,       \* what _parse_time_string did: [raised, value]
    task_types,          \* np.ndarray of task-type labels
    event_times,         \* np.ndarray of event times (seconds)
    params,              \* the keyword arguments of the call
    task_times_comply,   \* ensure_task_times_comply: its local / result
    attempts,            \* ensure_task_times_comply: its local
    n_attempts_budget,   \* the attempt budget the loop of ensure_task_times_comply runs under
    session_duration_seconds,  \* the session's length in seconds
    task_types_given,    \* the labels as handed to ensure_task_times_comply
    event_times_given,   \* the times as handed to ensure_task_times_comply
    np_random,           \* numpy's global generator: the seed it was last seeded
                         \* with (None: never seeded) and the draws made since
    np_stream,           \* the draws known of the stream of one seed: [seed, values]
    root,                \* the children of the document's root: the events so far
    n_inserted,          \* how many events were ever inserted under root
    comm_stems_per_ship, \* the stem pool of each call sign
    pump_failed_dict,    \* per pump, the seconds its bitmap marks as failed
    n_task_types,        \* len(task_types) before _adjust_task_types
    n_event_times,       \* len(event_times)
    task_index,          \* _generate_random_tasks: the position of its for loop
    resman,              \* _generate_resman_task: its locals
    xml_string,          \* the document returned: the events in document order
    raised,              \* the exception that ended the call, if one did
    run,                 \* which call of matbii_generate_random_xml this is
    first_xml_string,    \* the document the first call returned
    warnings,            \* the warnings issued by warn(), in order
    save_seed,           \* generate_and_save_xml: its seed
    seed_given,          \* generate_and_save_xml: the seed it was called with
    save_attempts,       \* generate_and_save_xml: its attempts
    max_attempts,        \* generate_and_save_xml: its max_attempts
    seeds_called,        \* the random_state of each generator call, in order
    random_xml,          \* generate_and_save_xml: the document of the last call
    files,               \* the files written to output_folder
    logged,              \* the errors logged
    generated,           \* what the generator returned for the random_states it was
                         \* called with: pairs <<random_state, outcome>>
    condition,           \* generate_and_save_xml, _create_matbii_scenarios: condition
    version,             \* generate_and_save_xml: version; the loop variable of
                         \* _create_matbii_scenarios
    scenarios_seed       \* _create_matbii_scenarios: its seed

codecVars == <<seconds, time_string, total_seconds>>
schedVars == <<task_types, event_times, params, task_times_comply, attempts,
               n_attempts_budget, session_duration_seconds, task_types_given,
               event_times_given>>
npVars == <<np_random, np_stream>>
callVars == <<params, n_attempts_budget>>
ensureVars == <<task_times_comply, attempts, task_types_given, event_times_given>>
docVars == <<root, n_inserted>>
countVars == <<n_task_types, n_event_times>>
runVars == <<xml_string, raised, run, first_xml_string, warnings>>
pipeVars == <<docVars, comm_stems_per_ship, pump_failed_dict, countVars, task_index,
              resman, runVars>>
saveVars == <<save_seed, seed_given, save_attempts, max_attempts, seeds_called, random_xml,
              files, logged, generated>>
importVars == <<event_type, text_file>>
scenarioVars == <<condition, version, scenarios_seed>>
vars == <<pc, codecVars, schedVars, npVars, pipeVars, saveVars, importVars, scenarioVars, scenarioVars>>

None == "None"

-----------------------------------------------------------------------------
(* Bounds of the model.                                                    *)

\* longest text handed to _parse_time_string in SpecCodec
MaxTextLen == 6

\* longest (task_types, event_times) pair enumerated in SpecCheck
MaxCheckLen == 4

-----------------------------------------------------------------------------
(* Texts.                                                                  *)

DigitChars == <<"0", "1", "2", "3", "4", "5", "6", "7", "8", "9">>

IsDigit(c) == \E d \in 1..10 : DigitChars[d] = c

DigitValue(c) == (CHOOSE d \in 1..10 : DigitChars[d] = c) - 1

\* str(n) for n >= 0
RECURSIVE NatToText(_)
NatToText(n) ==
    IF n < 10 THEN <<DigitChars[n + 1]>>
    ELSE NatToText(n \div 10) \o <<DigitChars[(n % 10) + 1]>>

\* the format specification 02d: sign, then digits, zero-padded to width 2
Format02d(n) ==
    IF n < 0 THEN <<"-">> \o NatToText(-n)
    ELSE IF n < 10 THEN <<"0">> \o NatToText(n)
    ELSE NatToText(n)

\* str.split(sep): the pieces between the separators, empty pieces kept
RECURSIVE Split(_, _)
Split(s, sep) ==
    IF \A i \in 1..Len(s) : s[i] # sep THEN <<s>>
    ELSE LET k == CHOOSE i \in 1..Len(s) : s[i] = sep /\ \A j \in 1..(i - 1) : s[j] # sep
         IN  <<SubSeq(s, 1, k - 1)>> \o Split(SubSeq(s, k + 1, Len(s)), sep)

\* str.strip() as int() applies it (space is the whitespace of the texts modelled)
RECURSIVE Strip(_)
Strip(s) ==
    IF Len(s) > 0 /\ s[1] = " " THEN Strip(Tail(s))
    ELSE IF Len(s) > 0 /\ s[Len(s)] = " " THEN Strip(SubSeq(s, 1, Len(s) - 1))
    ELSE s

\* the part of an int() literal after whitespace and sign
Unsigned(s) ==
    LET t == Strip(s)
    IN  IF Len(t) > 0 /\ t[1] \in {"+", "-"} THEN Tail(t) ELSE t

\* int(s) succeeds: optional whitespace, optional sign, digits with single
\* underscores between digits
IsIntLiteral(s) ==
    LET u == Unsigned(s)
    IN  /\ Len(u) > 0
        /\ IsDigit(u[1])
        /\ IsDigit(u[Len(u)])
        /\ \A i \in 1..Len(u) :
              \/ IsDigit(u[i])
              \/ u[i] = "_" /\ IsDigit(u[i - 1]) /\ IsDigit(u[i + 1])

RECURSIVE DigitsValue(_, _)
DigitsValue(u, acc) ==
    IF u = <<>> THEN acc
    ELSE IF Head(u) = "_" THEN DigitsValue(Tail(u), acc)
    ELSE DigitsValue(Tail(u), (acc * 10) + DigitValue(Head(u)))

\* int(s) for a text int() accepts
IntValue(s) ==
    LET t == Strip(s)
        v == DigitsValue(Unsigned(s), 0)
    IN  IF t[1] = "-" THEN -v ELSE v

-----------------------------------------------------------------------------
(* matbii_helpers.py: the time codec.                                      *)

\* a _format_seconds whose minutes are not reduced modulo the hour
_format_seconds_no_hour_wrap(secs) ==
    LET hours   == secs \div 3600
        minutes == secs \div 60
        sec     == secs % 60
    IN  Format02d(hours) \o <<":">> \o Format02d(minutes) \o <<":">> \o Format02d(sec)

_format_seconds(secs) ==
    LET hours   == secs \div 3600
        minutes == (secs % 3600) \div 60
        sec     == secs % 60
    IN  Format02d(hours) \o <<":">> \o Format02d(minutes) \o <<":">> \o Format02d(sec)

\* a _parse_time_string that reads the first three components and ignores the rest
_parse_time_string_first_three(text) ==
    LET parts == Split(text, ":")
    IN  IF Len(parts) < 3 \/ \E i \in 1..3 : ~IsIntLiteral(parts[i])
        THEN [raised |-> "ValueError", value |-> 0]
        ELSE [raised |-> "",
              value  |-> (IntValue(parts[1]) * 3600) + (IntValue(parts[2]) * 60)
                          + IntValue(parts[3])]

\* what the call does: it returns value, or raises ValueError
_parse_time_string(text) ==
    LET parts == Split(text, ":")
    IN  IF Len(parts) # 3 \/ \E i \in 1..Len(parts) : ~IsIntLiteral(parts[i])
        THEN [raised |-> "ValueError", value |-> 0]
        ELSE [raised |-> "",
              value  |-> (IntValue(parts[1]) * 3600) + (IntValue(parts[2]) * 60)
                          + IntValue(parts[3])]

-----------------------------------------------------------------------------
(* SpecCodec: the codec applied to every second of [0, 359999] and to      *)
(* every text of at most MaxTextLen characters.                            *)

TextAlphabet == {"0", "5", ":", "-", " ", "x"}

Texts == UNION {[1..n -> TextAlphabet] : n \in 0..MaxTextLen}

\* the seconds the round trip is claimed for: 0 .. 359999
CodecSeconds == 0..((100 * 3600) - 1)

SchedIdle ==
    /\ task_types = <<>>
    /\ event_times = <<>>
    /\ params = None
    /\ task_times_comply = FALSE
    /\ attempts = 0
    /\ n_attempts_budget = 0
    /\ session_duration_seconds = 0
    /\ task_types_given = <<>>
    /\ event_times_given = <<>>

\* seconds when a text, not a number, is the input
NoSeconds == 0 - 1

\* random_state=None, and the seed of a generator that was never seeded
NoSeed == 0 - 1

\* a generator that was never seeded
NpUnseeded ==
    /\ np_random = [seed |-> NoSeed, pos |-> 0]
    /\ np_stream = [seed |-> NoSeed, values |-> <<>>]

\* the keys of comm_stems_per_ship: ship.upper() for ship in ["own", "other"]
Ships == {"OWN", "OTHER"}

\* no resman task is being generated
NoResman == [fail_time_seconds |-> 0, fix_time_seconds |-> 0]

\* the document of no call
NoXml == [random_state |-> NoSeed, n_task_types |-> 0, n_event_times |-> 0]

\* generate_and_save_xml is not running
\* no text file is given and _remove_events is not being called
NoTextFile == <<>>
ImportIdle ==
    /\ event_type = None
    /\ text_file = NoTextFile

SaveIdle ==
    /\ save_seed = 0
    /\ seed_given = 0
    /\ save_attempts = 0
    /\ max_attempts = 0
    /\ seeds_called = <<>>
    /\ random_xml = NoXml
    /\ files = <<>>
    /\ logged = <<>>
    /\ generated = {}

\* neither generate_and_save_xml nor _create_matbii_scenarios was called
ScenarioIdle ==
    /\ condition = None
    /\ version = None
    /\ scenarios_seed = 0

PipeIdle ==
    /\ root = <<>>
    /\ n_inserted = 0
    /\ comm_stems_per_ship = [ship \in Ships |-> <<>>]
    /\ pump_failed_dict = <<>>
    /\ n_task_types = 0
    /\ n_event_times = 0
    /\ task_index = 0
    /\ resman = NoResman
    /\ xml_string = <<>>
    /\ raised = None
    /\ run = 0
    /\ first_xml_string = <<>>
    /\ warnings = <<>>

CodecIdle ==
    /\ seconds = NoSeconds
    /\ time_string = <<>>
    /\ total_seconds = [raised |-> None, value |-> 0]

InitCodec ==
    /\ total_seconds = [raised |-> None, value |-> 0]
    /\ \/ pc = "format" /\ seconds \in CodecSeconds /\ time_string = <<>>
       \/ pc = "parse" /\ seconds = NoSeconds /\ time_string \in Texts
    /\ SchedIdle
    /\ NpUnseeded
    /\ PipeIdle
    /\ SaveIdle
    /\ ScenarioIdle
    /\ ImportIdle

FormatSeconds ==
    /\ pc = "format"
    /\ time_string' = _format_seconds(seconds)
    /\ pc' = "parse"
    /\ UNCHANGED <<seconds, total_seconds, schedVars, npVars, pipeVars, saveVars, importVars, scenarioVars>>

ParseTimeString ==
    /\ pc = "parse"
    /\ total_seconds' = _parse_time_string(time_string)
    /\ pc' = "parsed"
    /\ UNCHANGED <<seconds, time_string, schedVars, npVars, pipeVars, saveVars, importVars, scenarioVars>>

NextCodec == FormatSeconds \/ ParseTimeString

SpecCodec == InitCodec /\ [][NextCodec]_vars

\* a zero-padded HH:MM:SS text with minute and second fields in 00..59
IsHHMMSS(text) ==
    /\ Len(text) = 8
    /\ text[3] = ":" /\ text[6] = ":"
    /\ \A i \in {1, 2, 4, 5, 7, 8} : IsDigit(text[i])
    /\ (DigitValue(text[4]) * 10) + DigitValue(text[5]) <= 59
    /\ (DigitValue(text[7]) * 10) + DigitValue(text[8]) <= 59

\* C7: for every integer s in [0, 359999], _format_seconds(s) is a zero-padded
\* HH:MM:SS text with minute and second fields in 00..59, and
\* _parse_time_string(_format_seconds(s)) returns s.
C7_RoundTrip ==
    /\ (pc \in {"parse", "parsed"} /\ seconds # NoSeconds) => IsHHMMSS(time_string)
    /\ (pc = "parsed" /\ seconds # NoSeconds)
          => total_seconds = [raised |-> "", value |-> seconds]

\* the last second of the range went through the codec: 99:59:59
C7_Witness ==
    /\ pc = "parsed"
    /\ seconds = (100 * 3600) - 1
    /\ time_string = <<"9", "9", ":", "5", "9", ":", "5", "9">>
    /\ total_seconds.value = seconds

\* the text has exactly two ':' and the three pieces around them are integer literals
ThreeIntegerComponents(text) ==
    \E i, j \in 1..Len(text) :
        /\ i < j
        /\ \A k \in 1..Len(text) : (text[k] = ":") <=> (k \in {i, j})
        /\ IsIntLiteral(SubSeq(text, 1, i - 1))
        /\ IsIntLiteral(SubSeq(text, i + 1, j - 1))
        /\ IsIntLiteral(SubSeq(text, j + 1, Len(text)))

\* C8: _parse_time_string raises ValueError for every text that is not three
\* integer components separated by ':' (too few, too many, or a non-integer
\* component); it returns no number for such a text.
C8_MalformedRaises ==
    (pc = "parsed" /\ seconds = NoSeconds /\ ~ThreeIntegerComponents(time_string))
        => total_seconds.raised = "ValueError"

\* a text of four components, the first three integers, was refused
C8_Witness ==
    /\ pc = "parsed"
    /\ time_string = <<"0", ":", "5", ":", "0", ":">>
    /\ total_seconds.raised = "ValueError"

-----------------------------------------------------------------------------
(* numpy on one-dimensional arrays (sequences).                            *)

\* np.where(mask)[0]: the indices where mask holds, in increasing order
RECURSIVE WhereUpTo(_, _)
WhereUpTo(mask, n) ==
    IF n = 0 THEN <<>>
    ELSE IF mask[n] THEN Append(WhereUpTo(mask, n - 1), n)
    ELSE WhereUpTo(mask, n - 1)

Where(mask) == WhereUpTo(mask, Len(mask))

\* array[indices]
Take(array, indices) == [k \in 1..Len(indices) |-> array[indices[k]]]

\* np.diff(array)
Diff(array) == [k \in 1..(Len(array) - 1) |-> array[k + 1] - array[k]]

\* np.any(array < bound)
\* a comparison that finds no difference below the bound
AnyBelow_never(array, bound) == FALSE

AnyBelow(array, bound) == \E k \in 1..Len(array) : array[k] < bound

-----------------------------------------------------------------------------
(* matbii_events.py, matbii_helpers.py: the constraint checker.            *)

TaskTypes == {"resman", "sysmon-light", "sysmon-scale", "comm-own", "comm-other"}

CommTypes == {"comm-own", "comm-other"}

_N_ATTEMPTS_CHECK_TASK_TIME_COMPLY == 100000

_GRACE_SECONDS_BEFORE_SESSION_DURATION == 25

\* the defaults of _check_task_times_comply, which no caller overrides
min_seconds_between_comm == 30

min_seconds_between_sysmon_light == 15

min_seconds_between_sysmon_scale == 10

\* the arguments ensure_task_times_comply passes
max_repeats == 2

window_size == 3

\* np.max(counts) of np.unique(window, return_counts=True)
MaxCount(window) ==
    LET count(v) == Cardinality({k \in 1..Len(window) : window[k] = v})
    IN  CHOOSE c \in {count(window[k]) : k \in 1..Len(window)} :
            \A k \in 1..Len(window) : count(window[k]) <= c

_has_repeated_values(array, maxRepeats, windowSize) ==
    \E i \in 0..(Len(array) - windowSize) :
        MaxCount(SubSeq(array, i + 1, i + windowSize)) > maxRepeats

\* a checker whose late-communication bound is strict (>) instead of >=
_check_task_times_comply_strict_late(types, times, seconds_before_comm_stop, seconds_after_comm_start, min_seconds_fail_fix_resman, duration) ==
    LET max_seconds_last_comm == duration - seconds_before_comm_stop
        should_not_be_comm ==
            Take(types, Where([k \in 1..Len(times) |-> times[k] > max_seconds_last_comm]))
            \o Take(types, Where([k \in 1..Len(times) |->
                                      times[k] <= seconds_after_comm_start]))
        comm_times == Take(times, Where([k \in 1..Len(types) |-> types[k] \in CommTypes]))
        should_not_be_resman ==
            Take(types, Where([k \in 1..Len(times) |->
                                  times[k] >= duration - min_seconds_fail_fix_resman - 1]))
        sysmon_light_times ==
            Take(times, Where([k \in 1..Len(types) |-> types[k] = "sysmon-light"]))
        sysmon_scale_times ==
            Take(times, Where([k \in 1..Len(types) |-> types[k] = "sysmon-scale"]))
    IN  IF \E k \in 1..Len(should_not_be_comm) : should_not_be_comm[k] \in CommTypes
        THEN FALSE
        ELSE IF AnyBelow(Diff(comm_times), min_seconds_between_comm) THEN FALSE
        ELSE IF \E k \in 1..Len(should_not_be_resman) : should_not_be_resman[k] = "resman"
        THEN FALSE
        ELSE IF AnyBelow(Diff(sysmon_light_times), min_seconds_between_sysmon_light)
        THEN FALSE
        ELSE IF AnyBelow(Diff(sysmon_scale_times), min_seconds_between_sysmon_scale)
        THEN FALSE
        ELSE IF _has_repeated_values(types, max_repeats, window_size) THEN FALSE
        ELSE TRUE

\* a checker that keeps the communications off the two ends of the session
\* only, whatever margins it is given
_check_task_times_comply_no_comm_margin(types, times, seconds_before_comm_stop, seconds_after_comm_start, min_seconds_fail_fix_resman, duration) ==
    LET max_seconds_last_comm == duration
        should_not_be_comm ==
            Take(types, Where([k \in 1..Len(times) |-> times[k] >= max_seconds_last_comm]))
            \o Take(types, Where([k \in 1..Len(times) |->
                                      times[k] <= 0]))
        comm_times == Take(times, Where([k \in 1..Len(types) |-> types[k] \in CommTypes]))
        should_not_be_resman ==
            Take(types, Where([k \in 1..Len(times) |->
                                  times[k] >= duration - min_seconds_fail_fix_resman - 1]))
        sysmon_light_times ==
            Take(times, Where([k \in 1..Len(types) |-> types[k] = "sysmon-light"]))
        sysmon_scale_times ==
            Take(times, Where([k \in 1..Len(types) |-> types[k] = "sysmon-scale"]))
    IN  IF \E k \in 1..Len(should_not_be_comm) : should_not_be_comm[k] \in CommTypes
        THEN FALSE
        ELSE IF AnyBelow(Diff(comm_times), min_seconds_between_comm) THEN FALSE
        ELSE IF \E k \in 1..Len(should_not_be_resman) : should_not_be_resman[k] = "resman"
        THEN FALSE
        ELSE IF AnyBelow(Diff(sysmon_light_times), min_seconds_between_sysmon_light)
        THEN FALSE
        ELSE IF AnyBelow(Diff(sysmon_scale_times), min_seconds_between_sysmon_scale)
        THEN FALSE
        ELSE IF _has_repeated_values(types, max_repeats, window_size) THEN FALSE
        ELSE TRUE

_check_task_times_comply(types, times, seconds_before_comm_stop, seconds_after_comm_start, min_seconds_fail_fix_resman, duration) ==
    LET max_seconds_last_comm == duration - seconds_before_comm_stop
        should_not_be_comm ==
            Take(types, Where([k \in 1..Len(times) |-> times[k] >= max_seconds_last_comm]))
            \o Take(types, Where([k \in 1..Len(times) |->
                                      times[k] <= seconds_after_comm_start]))
        comm_times == Take(times, Where([k \in 1..Len(types) |-> types[k] \in CommTypes]))
        should_not_be_resman ==
            Take(types, Where([k \in 1..Len(times) |->
                                  times[k] >= duration - min_seconds_fail_fix_resman - 1]))
        sysmon_light_times ==
            Take(times, Where([k \in 1..Len(types) |-> types[k] = "sysmon-light"]))
        sysmon_scale_times ==
            Take(times, Where([k \in 1..Len(types) |-> types[k] = "sysmon-scale"]))
    IN  IF \E k \in 1..Len(should_not_be_comm) : should_not_be_comm[k] \in CommTypes
        THEN FALSE
        ELSE IF AnyBelow(Diff(comm_times), min_seconds_between_comm) THEN FALSE
        ELSE IF \E k \in 1..Len(should_not_be_resman) : should_not_be_resman[k] = "resman"
        THEN FALSE
        ELSE IF AnyBelow(Diff(sysmon_light_times), min_seconds_between_sysmon_light)
        THEN FALSE
        ELSE IF AnyBelow(Diff(sysmon_scale_times), min_seconds_between_sysmon_scale)
        THEN FALSE
        ELSE IF _has_repeated_values(types, max_repeats, window_size) THEN FALSE
        ELSE TRUE

-----------------------------------------------------------------------------
(* SpecCheck: the checker applied to the four scenarios of                 *)
(* test_check_task_times_comply and to every pair of at most MaxCheckLen   *)
(* labels and strictly increasing times of TimeGrid, under the thresholds  *)
(* of the test.                                                            *)

\* times on both sides of every threshold of the test's parameters
TimeGrid == {5, 6, 20, 30, 50, 59, 60, 68, 69}

TestParams ==
    [seconds_before_comm_stop |-> 30, seconds_after_comm_start |-> 5,
     min_seconds_fail_fix_resman |-> 20]

Scenario1 ==
    [types |-> <<"resman", "sysmon-light", "sysmon-scale", "resman", "comm-other",
                 "sysmon-scale">>,
     times |-> <<5, 20, 40, 50, 75, 80>>]

Scenario2 ==
    [types |-> <<"resman", "sysmon-scale", "comm-own", "comm-other", "sysmon-light",
                 "sysmon-scale">>,
     times |-> <<5, 20, 40, 50, 60, 80>>]

Scenario3 ==
    [types |-> <<"resman", "sysmon-light", "sysmon-light", "comm-own", "sysmon-scale">>,
     times |-> <<5, 20, 30, 50, 60>>]

Scenario4 ==
    [types |-> <<"resman", "sysmon-light", "sysmon-scale", "comm-own", "sysmon-scale">>,
     times |-> <<5, 20, 40, 50, 60>>]

StrictlyIncreasing(times) == \A k \in 1..(Len(times) - 1) : times[k] < times[k + 1]

InitCheck ==
    /\ pc = "check"
    /\ CodecIdle
    /\ NpUnseeded
    /\ PipeIdle
    /\ SaveIdle
    /\ ScenarioIdle
    /\ ImportIdle
    /\ params = TestParams
    /\ session_duration_seconds = 90
    /\ \/ \E sc \in {Scenario1, Scenario2, Scenario3, Scenario4} :
            task_types = sc.types /\ event_times = sc.times
       \/ \E n \in 0..MaxCheckLen :
            /\ task_types \in [1..n -> TaskTypes]
            /\ event_times \in {t \in [1..n -> TimeGrid] : StrictlyIncreasing(t)}
    /\ task_types_given = task_types
    /\ event_times_given = event_times
    /\ task_times_comply = FALSE
    /\ attempts = 0
    /\ n_attempts_budget = 0

CheckTaskTimesComply ==
    /\ pc = "check"
    /\ task_times_comply' =
          _check_task_times_comply(task_types, event_times,
                                   params.seconds_before_comm_stop,
                                   params.seconds_after_comm_start,
                                   params.min_seconds_fail_fix_resman,
                                   session_duration_seconds)
    /\ pc' = "checked"
    /\ UNCHANGED <<codecVars, saveVars, importVars, scenarioVars, task_types, event_times, params, attempts,
                   n_attempts_budget, session_duration_seconds, task_types_given,
                   event_times_given, npVars, pipeVars>>

NextCheck == CheckTaskTimesComply

SpecCheck == InitCheck /\ [][NextCheck]_vars

\* the six violations, stated on positions of the index-aligned arrays
CommTooEarlyOrLate(types, times) ==
    \E i \in 1..Len(types) :
        /\ types[i] \in CommTypes
        /\ \/ times[i] <= params.seconds_after_comm_start
           \/ times[i] >= session_duration_seconds - params.seconds_before_comm_stop

\* positions i < j of label class L with no position of L between them
Consecutive(types, L, i, j) ==
    /\ i < j
    /\ types[i] \in L /\ types[j] \in L
    /\ \A k \in (i + 1)..(j - 1) : types[k] \notin L

TooClose(types, times, L, gap) ==
    \E i, j \in 1..Len(types) : Consecutive(types, L, i, j) /\ times[j] - times[i] < gap

ResmanTooLate(types, times) ==
    \E i \in 1..Len(types) :
        /\ types[i] = "resman"
        /\ times[i] >= session_duration_seconds - params.min_seconds_fail_fix_resman - 1

LabelRepeated(types) ==
    \E i \in 1..(Len(types) - 2) : types[i] = types[i + 1] /\ types[i + 1] = types[i + 2]

SomeViolation(types, times) ==
    \/ CommTooEarlyOrLate(types, times)
    \/ TooClose(types, times, CommTypes, 30)
    \/ ResmanTooLate(types, times)
    \/ TooClose(types, times, {"sysmon-light"}, 15)
    \/ TooClose(types, times, {"sysmon-scale"}, 10)
    \/ LabelRepeated(types)

\* C1: for index-aligned task_types and strictly increasing event_times,
\* _check_task_times_comply returns True if and only if none of the six
\* violations occurs; the four scenarios of test_check_task_times_comply give
\* False, False, False, True.
C1_CheckerIffNoViolation ==
    pc = "checked" =>
        /\ task_times_comply = ~SomeViolation(task_types, event_times)
        /\ [types |-> task_types, times |-> event_times]
              \in {Scenario1, Scenario2, Scenario3} => ~task_times_comply
        /\ (task_types = Scenario4.types /\ event_times = Scenario4.times)
              => task_times_comply

\* the fourth scenario of the test was checked and accepted
C1_Witness ==
    /\ pc = "checked"
    /\ task_types = Scenario4.types
    /\ event_times = Scenario4.times
    /\ task_times_comply

-----------------------------------------------------------------------------
(* numpy's global generator.  A draw returns any value the call can return *)
(* when the generator was never seeded.  After np.random.seed(n) the       *)
(* generator produces the stream of n, a fixed sequence: the first time a  *)
(* position of the stream is drawn any value can come, it is recorded in   *)
(* np_stream, and drawing the same position again returns the same value.  *)
(* The outcomes of the draws of one step are a sequence of tuples of       *)
(* integers.                                                               *)

\* the generator makes the draws whose outcomes are `outcomes`, in order
NpDraws(outcomes) ==
    IF np_random.seed = NoSeed
    THEN UNCHANGED <<np_random, np_stream>>
    ELSE LET known == np_stream.values
             from  == np_random.pos
             n     == Len(outcomes)
         IN  /\ \A k \in 1..n :
                   (from + k <= Len(known)) => known[from + k] = outcomes[k]
             /\ np_random' = [np_random EXCEPT !.pos = from + n]
             /\ np_stream' =
                   IF from + n <= Len(known) THEN np_stream
                   ELSE [np_stream EXCEPT !.values =
                            known \o SubSeq(outcomes, Len(known) - from + 1, n)]

\* the permutations of 1..n, as sequences
RECURSIVE IndexPermutations(_)
IndexPermutations(n) ==
    IF n = 0 THEN {<<>>}
    ELSE {[k \in 1..n |-> IF k < at THEN q[k] ELSE IF k = at THEN n ELSE q[k - 1]] :
              q \in IndexPermutations(n - 1), at \in 1..n}

\* np.random.shuffle(array) when the generator picks the permutation p
Shuffled(array, p) == [k \in 1..Len(array) |-> array[p[k]]]

-----------------------------------------------------------------------------
(* matbii_events.py: the rejection-sampling scheduler.                     *)

\* the loop of ensure_task_times_comply, running one attempt too many
ShuffleAndCheck_one_more ==
    /\ pc = "ensure"
    /\ ~task_times_comply /\ attempts <= n_attempts_budget
    /\ \E p \in IndexPermutations(Len(task_types)) :
          /\ task_types' = Shuffled(task_types, p)
          /\ NpDraws(<<p>>)
    /\ task_times_comply' =
          _check_task_times_comply(task_types', event_times,
                                   params.seconds_before_comm_stop,
                                   params.seconds_after_comm_start,
                                   params.min_seconds_fail_fix_resman,
                                   session_duration_seconds)
    /\ attempts' = attempts + 1
    /\ UNCHANGED <<pc, codecVars, saveVars, importVars, scenarioVars, event_times, params, n_attempts_budget,
                   session_duration_seconds, task_types_given, event_times_given,
                   pipeVars>>

\* the loop of ensure_task_times_comply, not stopping at an accepted shuffle
ShuffleAndCheck_no_stop ==
    /\ pc = "ensure"
    /\ attempts < n_attempts_budget
    /\ \E p \in IndexPermutations(Len(task_types)) :
          /\ task_types' = Shuffled(task_types, p)
          /\ NpDraws(<<p>>)
    /\ task_times_comply' =
          _check_task_times_comply(task_types', event_times,
                                   params.seconds_before_comm_stop,
                                   params.seconds_after_comm_start,
                                   params.min_seconds_fail_fix_resman,
                                   session_duration_seconds)
    /\ attempts' = attempts + 1
    /\ UNCHANGED <<pc, codecVars, saveVars, importVars, scenarioVars, event_times, params, n_attempts_budget,
                   session_duration_seconds, task_types_given, event_times_given,
                   pipeVars>>

\* one iteration of the while loop of ensure_task_times_comply
ShuffleAndCheck ==
    /\ pc = "ensure"
    /\ ~task_times_comply /\ attempts < n_attempts_budget
    /\ \E p \in IndexPermutations(Len(task_types)) :
          /\ task_types' = Shuffled(task_types, p)
          /\ NpDraws(<<p>>)
    /\ task_times_comply' =
          _check_task_times_comply(task_types', event_times,
                                   params.seconds_before_comm_stop,
                                   params.seconds_after_comm_start,
                                   params.min_seconds_fail_fix_resman,
                                   session_duration_seconds)
    /\ attempts' = attempts + 1
    /\ UNCHANGED <<pc, codecVars, saveVars, importVars, scenarioVars, event_times, params, n_attempts_budget,
                   session_duration_seconds, task_types_given, event_times_given,
                   pipeVars>>

\* the while condition fails: return task_times_comply
EnsureReturn ==
    /\ pc = "ensure"
    /\ ~(~task_times_comply /\ attempts < n_attempts_budget)
    /\ pc' = "ensured"
    /\ UNCHANGED <<codecVars, saveVars, importVars, scenarioVars, schedVars, npVars, pipeVars>>

-----------------------------------------------------------------------------
(* SpecSched: ensure_task_times_comply, with its budget of                 *)
(* _N_ATTEMPTS_CHECK_TASK_TIME_COMPLY attempts, on inputs that no shuffle  *)
(* satisfies and on inputs that some shuffles satisfy.                     *)

SchedInputs ==
    { [types |-> <<"comm-own">>, times |-> <<5>>],
      [types |-> <<"comm-own", "resman">>, times |-> <<5, 20>>] }

InitSched ==
    /\ pc = "ensure"
    /\ CodecIdle
    /\ NpUnseeded
    /\ PipeIdle
    /\ SaveIdle
    /\ ScenarioIdle
    /\ ImportIdle
    /\ params = TestParams
    /\ session_duration_seconds = 90
    /\ \E inp \in SchedInputs : task_types = inp.types /\ event_times = inp.times
    /\ task_types_given = task_types
    /\ event_times_given = event_times
    /\ task_times_comply = FALSE
    /\ attempts = 0
    /\ n_attempts_budget = _N_ATTEMPTS_CHECK_TASK_TIME_COMPLY

NextSched == ShuffleAndCheck \/ EnsureReturn

SpecSched == InitSched /\ [][NextSched]_vars

\* b is a permutation of a
IsPermutationOf(a, b) ==
    /\ Len(a) = Len(b)
    /\ \A v \in TaskTypes :
          Cardinality({k \in 1..Len(a) : a[k] = v})
              = Cardinality({k \in 1..Len(b) : b[k] = v})

\* C9: ensure_task_times_comply stops at the first shuffle the checker accepts
\* (no shuffle happens once task_times_comply is True); whenever it returns
\* True the task_types it leaves are a permutation of the input labels with
\* none of the six violations against event_times; event_times never change.
C9_StopsAtFirstCompliant ==
    /\ [](pc \in {"ensure", "ensured"} =>
            /\ event_times = event_times_given
            /\ IsPermutationOf(task_types_given, task_types)
            /\ (pc = "ensured" /\ task_times_comply)
                  => ~SomeViolation(task_types, event_times))
    /\ [][(pc = "ensure" /\ task_times_comply)
              => (task_types' = task_types /\ attempts' = attempts)]_vars

\* a call returned True after a rejected shuffle and an accepted one
C9_Witness ==
    /\ pc = "ensured"
    /\ task_times_comply
    /\ attempts = 2
    /\ task_types = <<"resman", "comm-own">>
    /\ task_types_given = <<"comm-own", "resman">>

\* C10: when no shuffle is compliant ensure_task_times_comply returns False
\* after exactly _N_ATTEMPTS_CHECK_TASK_TIME_COMPLY (100000) iterations; it
\* never iterates more often, and in every state of the loop it can either
\* iterate or return (it does not raise).
C10_BudgetExhaustion ==
    /\ pc \in {"ensure", "ensured"} => attempts <= 100000
    /\ (pc = "ensured" /\ ~task_times_comply) => attempts = 100000
    /\ pc = "ensure" => (ENABLED ShuffleAndCheck \/ ENABLED EnsureReturn)

\* the budget was exhausted on an input no shuffle satisfies
C10_Witness ==
    /\ pc = "ensured"
    /\ ~task_times_comply
    /\ attempts = 100000
    /\ task_types = <<"comm-own">>

-----------------------------------------------------------------------------
(* The document tree.  An event is [startTime, child, payload, ins]:       *)
(* the startTime attribute (a text), the tag of its child element, the     *)
(* texts and attributes below that child, and the rank of its insertion    *)
(* under root (kept to state claims; not part of the document).            *)

\* SubElement(root, "event", startTime=...) and the child element below it, for
\* each [startTime, child, payload] of events, in order
AppendEvents(rootSeq, inserted, events) ==
    rootSeq \o [k \in 1..Len(events) |->
                   [startTime |-> events[k].startTime, child |-> events[k].child,
                    payload |-> events[k].payload, ins |-> inserted + k]]

Event(time, child, payload) == [startTime |-> time, child |-> child, payload |-> payload]

\* _get_seconds_from_elem
_get_seconds_from_elem(elem) == _parse_time_string(elem.startTime).value

\* the elements of rootSeq, each with the key sorted() computes for it once
Keyed(rootSeq) ==
    [k \in 1..Len(rootSeq) |->
        [key |-> _get_seconds_from_elem(rootSeq[k]), elem |-> rootSeq[k]]] \o <<>>

\* insert a keyed element into a sequence sorted by key, before the first
\* element of an equal or larger key
InsertBeforeEqual(sortedSeq, keyed) ==
    LET n == Cardinality({k \in 1..Len(sortedSeq) : sortedSeq[k].key < keyed.key})
    IN  SubSeq(sortedSeq, 1, n) \o <<keyed>> \o SubSeq(sortedSeq, n + 1, Len(sortedSeq))

\* insert a keyed element into a sequence sorted by key, after every element
\* of a smaller or equal key
InsertAfterEqual(sortedSeq, keyed) ==
    LET n == Cardinality({k \in 1..Len(sortedSeq) : sortedSeq[k].key <= keyed.key})
    IN  SubSeq(sortedSeq, 1, n) \o <<keyed>> \o SubSeq(sortedSeq, n + 1, Len(sortedSeq))

\* the first n keyed elements in the order of a stable sort by key
RECURSIVE SortedUpTo(_, _)
SortedUpTo(keyedSeq, n) ==
    IF n = 0 THEN <<>>
    ELSE LET before == SortedUpTo(keyedSeq, n - 1)
         IN  InsertAfterEqual(before, keyedSeq[n])

\* the first n keyed elements sorted by key, an element before those of its key
RECURSIVE SortedUpTo_unstable(_, _)
SortedUpTo_unstable(keyedSeq, n) ==
    IF n = 0 THEN <<>>
    ELSE LET before == SortedUpTo_unstable(keyedSeq, n - 1)
         IN  InsertBeforeEqual(before, keyedSeq[n])

\* a sort that leaves the events in the order they were inserted in
_sort_events_by_seconds_not_at_all(rootSeq) == rootSeq

\* a sort by startTime that is not stable
_sort_events_by_seconds_unstable(rootSeq) ==
    LET ordered == SortedUpTo_unstable(Keyed(rootSeq), Len(rootSeq))
    IN  [k \in 1..Len(ordered) |-> ordered[k].elem]

\* root[:] = sorted(root, key=_get_seconds_from_elem): a stable sort
_sort_events_by_seconds(rootSeq) ==
    LET ordered == SortedUpTo(Keyed(rootSeq), Len(rootSeq))
    IN  [k \in 1..Len(ordered) |-> ordered[k].elem]

-----------------------------------------------------------------------------
(* misc/random.py.                                                         *)

\* a seed_everything that seeds Python's generator and PYTHONHASHSEED only
seed_everything_without_numpy(seed) == UNCHANGED <<np_random, np_stream>>

\* np.random.seed(seed): the generator restarts the stream of seed.
\* (random.seed and PYTHONHASHSEED do not reach any draw of the generator.)
seed_everything(seed) ==
    /\ np_random' = [seed |-> seed, pos |-> 0]
    /\ np_stream' = IF np_stream.seed = seed THEN np_stream
                    ELSE [seed |-> seed, values |-> <<>>]

-----------------------------------------------------------------------------
(* matbii_events.py: matbii_generate_random_xml up to the scheduler.       *)

\* the events of _INITIAL_XML_STRING_MATBII
InitialEvents ==
    << Event(<<"0", ":", "0", "0", ":", "0", "1">>, "sched",
             <<"RESSYS", "START", "NULL", "NULL">>),
       Event(<<"0", ":", "0", "0", ":", "0", "2">>, "sched",
             <<"TRACK", "MANUAL", "HIGH", "MEDIUM">>) >>

\* _initialize_matbii_generation: if random_state is not None: seed_everything
SeedIfGiven ==
    /\ pc = "start"
    /\ IF params.random_state # NoSeed
       THEN seed_everything(params.random_state)
       ELSE UNCHANGED <<np_random, np_stream>>
    /\ pc' = "initialize"
    /\ UNCHANGED <<codecVars, saveVars, importVars, scenarioVars, schedVars, pipeVars>>

\* _initialize_matbii_generation after the seeding: the initial tree, the
\* control START event and _get_comm_stems (comm_stems_path is None)
InitializeMatbiiGeneration ==
    /\ pc = "initialize"
    /\ root' = AppendEvents(<<>>, 0,
                   InitialEvents
                   \o <<Event(<<"0", ":", "0", "0", ":", "0", "0">>, "control", <<"START">>)>>)
    /\ n_inserted' = 3
    /\ \E pOwn \in IndexPermutations(Len(params.comm_stems["own"])),
          pOther \in IndexPermutations(Len(params.comm_stems["other"])) :
          /\ comm_stems_per_ship' =
                [ship \in Ships |->
                    IF ship = "OWN" THEN Shuffled(params.comm_stems["own"], pOwn)
                    ELSE Shuffled(params.comm_stems["other"], pOther)]
          /\ NpDraws(<<pOwn, pOther>>)
    /\ pc' = "event_times"
    /\ UNCHANGED <<codecVars, saveVars, importVars, scenarioVars, schedVars, pump_failed_dict, countVars, task_index,
                   resman, runVars>>

\* int(np.round(a / b)) for a >= 0, b > 0: halves go to the even neighbour
RoundedQuotient(a, b) ==
    LET q == a \div b
        r == a % b
    IN  IF 2 * r < b THEN q
        ELSE IF 2 * r > b THEN q + 1
        ELSE IF q % 2 = 0 THEN q ELSE q + 1

\* np.cumsum
RECURSIVE CumSumUpTo(_, _)
CumSumUpTo(array, n) ==
    IF n = 0 THEN <<>>
    ELSE IF n = 1 THEN <<array[1]>>
    ELSE LET before == CumSumUpTo(array, n - 1)
         IN  Append(before, before[n - 1] + array[n])

CumSum(array) == CumSumUpTo(array, Len(array))

\* a generate_random_events that keeps every cumulated time
EventTimesOf_unfiltered(event_diffs, duration) == CumSum(event_diffs)

\* the value of generate_random_events when np.random.choice returns event_diffs
EventTimesOf(event_diffs, duration) ==
    LET times == CumSum(event_diffs)
    IN  Take(times, Where([k \in 1..Len(times) |->
                  times[k] <= duration - _GRACE_SECONDS_BEFORE_SESSION_DURATION]))

\* the arrays np.random.choice(np.arange(lo, hi), size=size, replace=True) can return
ChoiceArrays(lo, hi, size) == [1..size -> lo..(hi - 1)]

\* n copies of label
Repeat(label, n) == [k \in 1..n |-> label]

\* a generate_task_types that takes the two sysmon counts for each other
generate_task_types_sysmon_swapped(n_pump_failures, n_own_comm, n_other_comm, n_green_red_issues, n_systems_up_down) ==
    Repeat("resman", n_pump_failures) \o Repeat("comm-own", n_own_comm)
        \o Repeat("comm-other", n_other_comm) \o Repeat("sysmon-light", n_systems_up_down)
        \o Repeat("sysmon-scale", n_green_red_issues)

generate_task_types(n_pump_failures, n_own_comm, n_other_comm, n_green_red_issues, n_systems_up_down) ==
    Repeat("resman", n_pump_failures) \o Repeat("comm-own", n_own_comm)
        \o Repeat("comm-other", n_other_comm) \o Repeat("sysmon-light", n_green_red_issues)
        \o Repeat("sysmon-scale", n_systems_up_down)

\* _generate_event_times_and_task_types (min_seconds_event_diff >= 1 and
\* max_seconds_event_diff > min_seconds_event_diff, as np.random.choice needs)
GenerateEventTimesAndTaskTypes ==
    /\ pc = "event_times"
    /\ session_duration_seconds' = params.session_duration_minutes * 60
    /\ \E event_diffs \in ChoiceArrays(params.min_seconds_event_diff,
                                      params.max_seconds_event_diff,
                                      RoundedQuotient(session_duration_seconds',
                                                      params.min_seconds_event_diff)) :
          /\ event_times' = EventTimesOf(event_diffs, session_duration_seconds')
          /\ NpDraws(<<event_diffs>>)
    /\ task_types' = generate_task_types(params.n_pump_failures, params.n_own_comm,
                                         params.n_other_comm, params.n_green_red_issues,
                                         params.n_systems_up_down)
    /\ pc' = "adjust"
    /\ UNCHANGED <<codecVars, saveVars, importVars, scenarioVars, callVars, ensureVars, pipeVars>>

\* the list np.random.choice draws the padding labels from
PaddingLabels == <<"resman", "sysmon-light", "sysmon-scale", "comm-own", "comm-other">>

\* an _adjust_task_types that pads but never truncates
AdjustTaskTypes_no_truncation ==
    /\ pc = "adjust"
    /\ n_task_types' = Len(task_types)
    /\ n_event_times' = Len(event_times)
    /\ \E drawn \in [1..(Len(event_times) - Len(task_types)) -> 1..Len(PaddingLabels)] :
          /\ task_types' = task_types \o [k \in 1..Len(drawn) |-> PaddingLabels[drawn[k]]]
          /\ NpDraws([k \in 1..Len(drawn) |-> <<drawn[k]>>])
    /\ pc' = "generate_tasks"
    /\ UNCHANGED <<codecVars, saveVars, importVars, scenarioVars, callVars, ensureVars, event_times,
                   session_duration_seconds, docVars, comm_stems_per_ship,
                   pump_failed_dict, task_index, resman, runVars>>

\* _adjust_task_types
AdjustTaskTypes ==
    /\ pc = "adjust"
    /\ n_task_types' = Len(task_types)
    /\ n_event_times' = Len(event_times)
    /\ IF Len(task_types) > Len(event_times)
       THEN /\ task_types' = SubSeq(task_types, 1, Len(event_times))
            /\ UNCHANGED <<np_random, np_stream>>
       ELSE \E drawn \in [1..(Len(event_times) - Len(task_types)) -> 1..Len(PaddingLabels)] :
               /\ task_types' = task_types \o [k \in 1..Len(drawn) |-> PaddingLabels[drawn[k]]]
               /\ NpDraws([k \in 1..Len(drawn) |-> <<drawn[k]>>])
    /\ pc' = "generate_tasks"
    /\ UNCHANGED <<codecVars, saveVars, importVars, scenarioVars, callVars, ensureVars, event_times, session_duration_seconds,
                   docVars, comm_stems_per_ship, pump_failed_dict, task_index, resman,
                   runVars>>

\* the keys of pump_failed_dict: "P" + str(i) for i in range(9)
PumpKeys == {"P" \o ToString(i) : i \in 0..8}

\* _generate_tasks up to the call of ensure_task_times_comply, and the first
\* lines of that call
GenerateTasksBegin ==
    /\ pc = "generate_tasks"
    /\ pump_failed_dict' = [pump \in PumpKeys |-> {}]
    /\ attempts' = 0
    /\ task_times_comply' = FALSE
    /\ task_types_given' = task_types
    /\ event_times_given' = event_times
    /\ pc' = "ensure"
    /\ UNCHANGED <<codecVars, saveVars, importVars, scenarioVars, callVars, task_types, event_times, session_duration_seconds,
                   npVars, docVars, comm_stems_per_ship, countVars, task_index, resman,
                   runVars>>

\* a _generate_tasks that generates the tasks whatever the scheduler returned
\* what follows _generate_tasks: _update_xml_with_text_file when the call is
\* matbii_generate_random_xml_with_text_file, else
\* _generate_auto_and_comm_start_stop
AfterGenerateTasks == IF text_file = NoTextFile THEN "auto" ELSE "update"

GenerateTasksBranch_always ==
    /\ pc = "ensured"
    /\ pc' = "random_tasks"
    /\ task_index' = 1
    /\ UNCHANGED <<codecVars, saveVars, importVars, scenarioVars, schedVars, npVars, docVars, comm_stems_per_ship,
                   pump_failed_dict, countVars, resman, runVars>>

\* _generate_tasks: if task_times_comply: _generate_random_tasks(...)
GenerateTasksBranch ==
    /\ pc = "ensured"
    /\ IF task_times_comply
       THEN pc' = "random_tasks" /\ task_index' = 1
       ELSE pc' = AfterGenerateTasks /\ UNCHANGED task_index
    /\ UNCHANGED <<codecVars, saveVars, importVars, scenarioVars, schedVars, npVars, docVars, comm_stems_per_ship,
                   pump_failed_dict, countVars, resman, runVars>>

-----------------------------------------------------------------------------
(* matbii_tasks.py: _generate_random_tasks, one iteration of its loop per  *)
(* action (the loops of _generate_resman_task one iteration per action).   *)

\* task_type.split("-")
TaskTypeParts(task_type) ==
    CASE task_type = "resman" -> <<"resman">>
      [] task_type = "comm-own" -> <<"comm", "own">>
      [] task_type = "comm-other" -> <<"comm", "other">>
      [] task_type = "sysmon-light" -> <<"sysmon", "light">>
      [] task_type = "sysmon-scale" -> <<"sysmon", "scale">>

\* str.upper on the ship part of a label
Upper(ship) == IF ship = "own" THEN "OWN" ELSE "OTHER"

\* the number of pairs zip(task_types, event_times) yields
ZipLen == IF Len(task_types) < Len(event_times) THEN Len(task_types) ELSE Len(event_times)

\* the loop of _generate_random_tasks is at a pair whose label starts with kind
AtTask(kind) ==
    /\ pc = "random_tasks"
    /\ task_index <= ZipLen
    /\ TaskTypeParts(task_types[task_index])[1] = kind

\* time = _format_seconds(event_time)
TaskTime == _format_seconds(event_times[task_index])

\* _generate_random_tasks: zip is exhausted
RandomTasksDone ==
    /\ pc = "random_tasks"
    /\ task_index > ZipLen
    /\ pc' = AfterGenerateTasks
    /\ UNCHANGED <<codecVars, saveVars, importVars, scenarioVars, schedVars, npVars, pipeVars>>

\* _generate_resman_task: one iteration of
\* while fix_time_seconds >= len(pump_failed_dict["P1"]) - 1
ResmanDrawFix ==
    /\ AtTask("resman") \/ pc = "resman_fix"
    /\ \E diff_seconds_fail_fix \in
             params.min_seconds_fail_fix_resman..(params.max_seconds_fail_fix_resman - 1) :
          LET fail_time_seconds == _parse_time_string(TaskTime).value
              fix_time_seconds  == diff_seconds_fail_fix + fail_time_seconds
          IN  /\ resman' = [fail_time_seconds |-> fail_time_seconds,
                            fix_time_seconds |-> fix_time_seconds]
              /\ pc' = IF fix_time_seconds >= session_duration_seconds - 1
                       THEN "resman_fix" ELSE "resman_pump"
              /\ NpDraws(<< <<diff_seconds_fail_fix>> >>)
    /\ UNCHANGED <<codecVars, saveVars, importVars, scenarioVars, schedVars, docVars, comm_stems_per_ship, pump_failed_dict,
                   countVars, task_index, runVars>>

\* the indices of a slice that takes in fix_time_seconds as well
SliceIndices_closed(fail_time_seconds, fix_time_seconds) ==
    {t \in fail_time_seconds..fix_time_seconds : t < session_duration_seconds}

\* the indices of array[fail_time_seconds:fix_time_seconds] in an array of
\* session_duration_seconds entries
SliceIndices(fail_time_seconds, fix_time_seconds) ==
    {t \in fail_time_seconds..(fix_time_seconds - 1) : t < session_duration_seconds}

\* np.all(pump_failed_dict[pump][fail_time_seconds:fix_time_seconds] == 0),
\* taken as true whatever the slice holds
PumpDidNotFail_unchecked(pump) == TRUE

\* np.all(pump_failed_dict[pump][fail_time_seconds:fix_time_seconds] == 0)
PumpDidNotFail(pump) ==
    pump_failed_dict[pump]
        \cap SliceIndices(resman.fail_time_seconds, resman.fix_time_seconds) = {}

\* the values np.random.randint(low, high) returns: low <= n < high
randint(low, high) == low..(high - 1)

\* the pumps "P" + str(np.random.randint(1, 8)) names
DrawablePumps == {"P" \o ToString(n) : n \in randint(1, 8)}

\* _generate_resman_task: one iteration of while need_to_select_pump, and, when
\* the pump is selected, the fail and the fix event
ResmanDrawPump ==
    /\ pc = "resman_pump"
    /\ \E n \in randint(1, 8) :
          LET pump == "P" \o ToString(n)
          IN  /\ NpDraws(<< <<n>> >>)
              /\ IF PumpDidNotFail(pump)
                 THEN /\ pump_failed_dict' =
                            [pump_failed_dict EXCEPT ![pump] =
                                @ \cup SliceIndices(resman.fail_time_seconds,
                                                    resman.fix_time_seconds)]
                      /\ root' = AppendEvents(root, n_inserted,
                            << Event(TaskTime, "resman", <<"fail", pump>>),
                               Event(_format_seconds(resman.fix_time_seconds), "resman",
                                     <<"fix", pump>>) >>)
                      /\ n_inserted' = n_inserted + 2
                      /\ task_index' = task_index + 1
                      /\ resman' = NoResman
                      /\ pc' = "random_tasks"
                 ELSE UNCHANGED <<pump_failed_dict, root, n_inserted, task_index, resman, pc>>
    /\ UNCHANGED <<codecVars, saveVars, importVars, scenarioVars, schedVars, comm_stems_per_ship, countVars, runVars>>

\* what _generate_sysmon_task puts below the event for a light of the drawn colour
LightPayload(color) ==
    IF color = "GREEN" THEN <<"activity", "START", "monitoringLightType", color>>
    ELSE <<"monitoringLightType", color>>

LightColors == <<"GREEN", "RED">>
ScaleNumbers == <<"ONE", "TWO", "THREE", "FOUR">>
ScaleDirections == <<"UP", "DOWN">>

\* _generate_sysmon_task
GenerateSysmonTask ==
    /\ AtTask("sysmon")
    /\ IF TaskTypeParts(task_types[task_index])[2] = "light"
       THEN \E c \in 1..Len(LightColors) :
               /\ root' = AppendEvents(root, n_inserted,
                              <<Event(TaskTime, "sysmon", LightPayload(LightColors[c]))>>)
               /\ NpDraws(<< <<c>> >>)
       ELSE \E num \in 1..Len(ScaleNumbers), dir \in 1..Len(ScaleDirections) :
               /\ root' = AppendEvents(root, n_inserted,
                              <<Event(TaskTime, "sysmon",
                                      <<"monitoringScaleNumber", ScaleNumbers[num],
                                        "monitoringScaleDirection", ScaleDirections[dir]>>)>>)
               /\ NpDraws(<< <<num>>, <<dir>> >>)
    /\ n_inserted' = n_inserted + 1
    /\ task_index' = task_index + 1
    /\ UNCHANGED <<pc, codecVars, saveVars, importVars, scenarioVars, schedVars, comm_stems_per_ship, pump_failed_dict,
                   countVars, resman, runVars>>

\* the ship, radio and freq texts _generate_comm_task reads out of a stem
CommPayload(comm_stem) ==
    LET split_comm_stem == Split(comm_stem, "_")
        ship  == split_comm_stem[1]
        radio == split_comm_stem[2]
        freq  == Split(split_comm_stem[3], "-")[1] \o <<".">>
                    \o Split(split_comm_stem[3], "-")[2]
    IN  <<ship, radio, freq>>

\* a comm task that reads the last stem of the list without removing it
GenerateCommTask_peek ==
    /\ AtTask("comm")
    /\ LET ship == Upper(TaskTypeParts(task_types[task_index])[2])
           stems == comm_stems_per_ship[ship]
       IN  IF stems = <<>>
           THEN /\ raised' = "IndexError"
                /\ pc' = "raised"
                /\ UNCHANGED <<docVars, comm_stems_per_ship, task_index>>
           ELSE /\ comm_stems_per_ship' = comm_stems_per_ship
                /\ root' = AppendEvents(root, n_inserted,
                               <<Event(TaskTime, "comm", CommPayload(stems[Len(stems)]))>>)
                /\ n_inserted' = n_inserted + 1
                /\ task_index' = task_index + 1
                /\ UNCHANGED <<pc, raised>>
    /\ UNCHANGED <<codecVars, saveVars, importVars, scenarioVars, schedVars, npVars, pump_failed_dict, countVars, resman,
                   xml_string, run, first_xml_string, warnings>>

\* the comm branch of _generate_random_tasks: comm_stems_per_ship[ship].pop(),
\* which raises IndexError on an empty list, and _generate_comm_task
GenerateCommTask ==
    /\ AtTask("comm")
    /\ LET ship == Upper(TaskTypeParts(task_types[task_index])[2])
           stems == comm_stems_per_ship[ship]
       IN  IF stems = <<>>
           THEN /\ raised' = "IndexError"
                /\ pc' = "raised"
                /\ UNCHANGED <<docVars, comm_stems_per_ship, task_index>>
           ELSE /\ comm_stems_per_ship' =
                      [comm_stems_per_ship EXCEPT ![ship] = SubSeq(stems, 1, Len(stems) - 1)]
                /\ root' = AppendEvents(root, n_inserted,
                               <<Event(TaskTime, "comm", CommPayload(stems[Len(stems)]))>>)
                /\ n_inserted' = n_inserted + 1
                /\ task_index' = task_index + 1
                /\ UNCHANGED <<pc, raised>>
    /\ UNCHANGED <<codecVars, saveVars, importVars, scenarioVars, schedVars, npVars, pump_failed_dict, countVars, resman,
                   xml_string, run, first_xml_string, warnings>>

-----------------------------------------------------------------------------
(* matbii_tasks.py: the automation period and the communication            *)
(* brackets; matbii_events.py: the last events and the final sort.         *)

\* an event with a sched child
SchedEvent(time, task, action, update, response) ==
    Event(time, "sched", <<task, action, update, response>>)

\* a _generate_auto_task that takes total_auto_minutes for seconds
AutoEvents_minutes_as_seconds(auto_start_seconds, total_auto_minutes, duration) ==
    << SchedEvent(_format_seconds(auto_start_seconds), "TRACK", "AUTO", "NULL", "NULL"),
       SchedEvent(_format_seconds(auto_start_seconds + total_auto_minutes),
                  "TRACK", "MANUAL", "MEDIUM", "HIGH"),
       SchedEvent(_format_seconds(duration - 3), "TRACK", "AUTO", "NULL", "NULL") >>

\* the three events _generate_auto_task appends
AutoEvents(auto_start_seconds, total_auto_minutes, duration) ==
    << SchedEvent(_format_seconds(auto_start_seconds), "TRACK", "AUTO", "NULL", "NULL"),
       SchedEvent(_format_seconds(auto_start_seconds + total_auto_minutes * 60),
                  "TRACK", "MANUAL", "MEDIUM", "HIGH"),
       SchedEvent(_format_seconds(duration - 3), "TRACK", "AUTO", "NULL", "NULL") >>

\* the event _generate_comm_sched_task appends
CommSchedEvent(seconds_, action) ==
    SchedEvent(_format_seconds(seconds_), "COMM", action, "NULL", "NULL")

\* _get_comm_task_times
_get_comm_task_times(rootSeq) ==
    LET comm == Where([k \in 1..Len(rootSeq) |-> rootSeq[k].child = "comm"])
    IN  [k \in 1..Len(comm) |-> _get_seconds_from_elem(rootSeq[comm[k]])]

\* the loop of _generate_all_comm_start_stop that fills no_comm_intervals, from
\* the k-th communication on
RECURSIVE NoCommIntervalsFrom(_, _, _, _, _, _)
NoCommIntervalsFrom(comm_task_times, k, start_time_num, min_seconds_to_indicate_no_comm, seconds_before_comm_stop, seconds_after_comm_start) ==
    IF k > Len(comm_task_times) THEN <<>>
    ELSE LET comm_time == comm_task_times[k]
             diff == comm_time - start_time_num
             here == IF diff > min_seconds_to_indicate_no_comm
                     THEN << <<start_time_num + seconds_before_comm_stop,
                               comm_time - seconds_after_comm_start>> >>
                     ELSE <<>>
         IN  here \o NoCommIntervalsFrom(comm_task_times, k + 1, comm_time,
                                         min_seconds_to_indicate_no_comm,
                                         seconds_before_comm_stop,
                                         seconds_after_comm_start)

\* the STOP and START events of the intervals, in the order they are appended
RECURSIVE IntervalEvents(_)
IntervalEvents(no_comm_intervals) ==
    IF no_comm_intervals = <<>> THEN <<>>
    ELSE << CommSchedEvent(no_comm_intervals[1][1], "STOP"),
            CommSchedEvent(no_comm_intervals[1][2], "START") >>
         \o IntervalEvents(Tail(no_comm_intervals))

FirstCommWarning(seconds_after_comm_start) ==
    "The first communication is less than " \o ToString(seconds_after_comm_start)
        \o " seconds after the start of the experiment"

LastCommWarning(last_comm_task_time, seconds_before_comm_stop) ==
    "The last communication is at " \o ToString(last_comm_task_time)
        \o " seconds, which is less than " \o ToString(seconds_before_comm_stop)
        \o " seconds before the stop of the experiment"

\* a _generate_all_comm_start_stop that returns without adding an event
CommStartStopFor_tolerant(sortedRoot, comm_task_times, inserted, min_seconds_to_indicate_no_comm, seconds_before_comm_stop, seconds_after_comm_start, duration) ==
    [raised |-> None, root |-> sortedRoot, n_inserted |-> inserted, warnings |-> <<>>]

\* _generate_all_comm_start_stop from the sorted tree and its comm_task_times on:
\* what it raises, the tree it leaves and the warnings it issues
CommStartStopFor(sortedRoot, comm_task_times, inserted, min_seconds_to_indicate_no_comm, seconds_before_comm_stop, seconds_after_comm_start, duration) ==
    IF comm_task_times = <<>>
    THEN [raised |-> "IndexError", root |-> sortedRoot, n_inserted |-> inserted,
          warnings |-> <<>>]
    ELSE
      LET first_comm_task_time == comm_task_times[1]
          early == ~(first_comm_task_time > seconds_after_comm_start)
          first_comm_start_time ==
              IF early THEN first_comm_task_time
              ELSE first_comm_task_time - seconds_after_comm_start
          no_comm_intervals ==
              NoCommIntervalsFrom(comm_task_times, 1, first_comm_start_time,
                                  min_seconds_to_indicate_no_comm,
                                  seconds_before_comm_stop, seconds_after_comm_start)
          last_comm_task_time == comm_task_times[Len(comm_task_times)]
          late == ~(duration - last_comm_task_time > seconds_before_comm_stop)
          last_comm_stop_time ==
              IF late THEN duration
              ELSE last_comm_task_time + seconds_before_comm_stop
          events == <<CommSchedEvent(first_comm_start_time, "START")>>
                       \o IntervalEvents(no_comm_intervals)
                       \o <<CommSchedEvent(last_comm_stop_time, "STOP")>>
      IN  [raised |-> None,
           root |-> AppendEvents(sortedRoot, inserted, events),
           n_inserted |-> inserted + Len(events),
           warnings |->
              (IF early THEN <<FirstCommWarning(seconds_after_comm_start)>> ELSE <<>>)
              \o (IF late
                  THEN <<LastCommWarning(last_comm_task_time, seconds_before_comm_stop)>>
                  ELSE <<>>)]

\* _generate_all_comm_start_stop after root = _sort_events_by_seconds(root=root)
CommStartStopOf(sortedRoot, inserted, min_seconds_to_indicate_no_comm, seconds_before_comm_stop, seconds_after_comm_start, duration) ==
    CommStartStopFor(sortedRoot, _get_comm_task_times(sortedRoot), inserted,
                     min_seconds_to_indicate_no_comm, seconds_before_comm_stop,
                     seconds_after_comm_start, duration)

\* _generate_all_comm_start_stop
_generate_all_comm_start_stop(rootSeq, inserted, min_seconds_to_indicate_no_comm, seconds_before_comm_stop, seconds_after_comm_start, duration) ==
    CommStartStopOf(_sort_events_by_seconds(rootSeq), inserted,
                    min_seconds_to_indicate_no_comm, seconds_before_comm_stop,
                    seconds_after_comm_start, duration)

\* the state _generate_all_comm_start_stop leaves: it returns, or it raises
AfterCommStartStop(outcome) ==
    /\ root' = outcome.root
    /\ n_inserted' = outcome.n_inserted
    /\ warnings' = warnings \o outcome.warnings
    /\ raised' = outcome.raised
    /\ pc' = IF outcome.raised = None THEN "finalize" ELSE "raised"

\* _generate_auto_and_comm_start_stop; np.random.choice raises ValueError on
\* an empty np.arange(min_seconds_auto, max_seconds_auto)
GenerateAutoAndCommStartStop ==
    /\ pc = "auto"
    /\ LET buffer_seconds_auto == 5
           max_seconds_auto == session_duration_seconds - params.total_auto_minutes * 60
                                  - buffer_seconds_auto
           min_seconds_auto == buffer_seconds_auto
       IN  IF max_seconds_auto <= min_seconds_auto
           THEN /\ raised' = "ValueError"
                /\ pc' = "raised"
                /\ UNCHANGED <<npVars, docVars, warnings>>
           ELSE \E auto_start_seconds \in min_seconds_auto..(max_seconds_auto - 1) :
                   /\ NpDraws(<< <<auto_start_seconds>> >>)
                   /\ AfterCommStartStop(
                          _generate_all_comm_start_stop(
                              AppendEvents(root, n_inserted,
                                  AutoEvents(auto_start_seconds, params.total_auto_minutes,
                                             session_duration_seconds)),
                              n_inserted + 3,
                              params.min_seconds_to_indicate_no_comm,
                              params.seconds_before_comm_stop,
                              params.seconds_after_comm_start,
                              session_duration_seconds))
    /\ UNCHANGED <<codecVars, saveVars, importVars, scenarioVars, schedVars, comm_stems_per_ship, pump_failed_dict, countVars,
                   task_index, resman, xml_string, run, first_xml_string>>

\* tostring(root): the events in root's order, each with its startTime and what
\* is below it
tostring(rootSeq) ==
    [k \in 1..Len(rootSeq) |->
        [startTime |-> rootSeq[k].startTime, child |-> rootSeq[k].child,
         payload |-> rootSeq[k].payload]]

\* a _finalize_matbii_generation that ends the session three seconds early
FinalizeMatbiiGeneration_end_early ==
    /\ pc = "finalize"
    /\ LET withLast ==
               AppendEvents(root, n_inserted,
                   << Event(_format_seconds(session_duration_seconds - 2), "rate",
                            <<"START">>),
                      Event(_format_seconds(session_duration_seconds - 3), "control",
                            <<"END">>) >>)
       IN  /\ root' = _sort_events_by_seconds(withLast)
           /\ n_inserted' = n_inserted + 2
    /\ xml_string' = tostring(root')
    /\ pc' = "done"
    /\ UNCHANGED <<codecVars, saveVars, importVars, scenarioVars, schedVars, npVars, comm_stems_per_ship, pump_failed_dict,
                   countVars, task_index, resman, raised, run, first_xml_string, warnings>>

\* _finalize_matbii_generation, and the return of matbii_generate_random_xml
FinalizeMatbiiGeneration ==
    /\ pc = "finalize"
    /\ LET withLast ==
               AppendEvents(root, n_inserted,
                   << Event(_format_seconds(session_duration_seconds - 2), "rate",
                            <<"START">>),
                      Event(_format_seconds(session_duration_seconds), "control",
                            <<"END">>) >>)
       IN  /\ root' = _sort_events_by_seconds(withLast)
           /\ n_inserted' = n_inserted + 2
    /\ xml_string' = tostring(root')
    /\ pc' = "done"
    /\ UNCHANGED <<codecVars, saveVars, importVars, scenarioVars, schedVars, npVars, comm_stems_per_ship, pump_failed_dict,
                   countVars, task_index, resman, raised, run, first_xml_string, warnings>>

-----------------------------------------------------------------------------
(* The calls of matbii_generate_random_xml that are explored.              *)

\* the most shuffles ensure_task_times_comply is followed through in a call of
\* matbii_generate_random_xml
MaxAttempts == 2

\* stems of the shape the generator splits: ship, radio and frequency
OwnStems ==
    << <<"O", "W", "N", "_", "C", "O", "M", "1", "_", "1", "2", "6", "-", "5", "0", "0">>,
       <<"O", "W", "N", "_", "N", "A", "V", "2", "_", "1", "1", "2", "-", "4", "5", "0">> >>

OtherStems ==
    << <<"O", "T", "H", "E", "R", "_", "C", "O", "M", "2", "_", "1", "2", "7", "-", "5", "2", "5">>,
       <<"O", "T", "H", "E", "R", "_", "N", "A", "V", "1", "_", "1", "1", "4", "-", "6", "5", "0">> >>

\* the arguments of one call of matbii_generate_random_xml
Arguments(random_state, session_duration_minutes, min_seconds_event_diff, max_seconds_event_diff, min_seconds_fail_fix_resman, max_seconds_fail_fix_resman, min_seconds_to_indicate_no_comm, seconds_before_comm_stop, seconds_after_comm_start, counts, total_auto_minutes, own_stems, other_stems) ==
    [random_state |-> random_state,
     session_duration_minutes |-> session_duration_minutes,
     min_seconds_event_diff |-> min_seconds_event_diff,
     max_seconds_event_diff |-> max_seconds_event_diff,
     min_seconds_fail_fix_resman |-> min_seconds_fail_fix_resman,
     max_seconds_fail_fix_resman |-> max_seconds_fail_fix_resman,
     min_seconds_to_indicate_no_comm |-> min_seconds_to_indicate_no_comm,
     seconds_before_comm_stop |-> seconds_before_comm_stop,
     seconds_after_comm_start |-> seconds_after_comm_start,
     n_pump_failures |-> counts[1], n_own_comm |-> counts[2], n_other_comm |-> counts[3],
     n_green_red_issues |-> counts[4], n_systems_up_down |-> counts[5],
     total_auto_minutes |-> total_auto_minutes,
     comm_stems |-> [ship \in {"own", "other"} |->
                        IF ship = "own" THEN own_stems ELSE other_stems]]

\* one minute, events at 9, 18, 27: two lights and a communication
CallLights ==
    Arguments(NoSeed, 1, 9, 10, 20, 22, 40, 20, 5, <<0, 1, 0, 2, 0>>, 0,
              SubSeq(OwnStems, 1, 1), <<>>)

\* one minute, events at 9, 18, 27: two scales and a communication
CallScales ==
    Arguments(NoSeed, 1, 9, 10, 20, 22, 40, 20, 5, <<0, 1, 0, 0, 2>>, 0,
              SubSeq(OwnStems, 1, 1), <<>>)

\* two minutes, events at 23, 46, 69, 92: two communications and two lights
CallComms ==
    Arguments(NoSeed, 2, 23, 24, 20, 22, 40, 30, 5, <<0, 1, 1, 2, 0>>, 1,
              OwnStems, SubSeq(OtherStems, 1, 1))

\* one minute, events at 10, 20, 30: two pump failures of 22 seconds around a
\* communication that complies at 20 only
CallPumps ==
    Arguments(NoSeed, 1, 10, 11, 22, 23, 40, 35, 15, <<2, 1, 0, 0, 0>>, 0,
              SubSeq(OwnStems, 1, 1), <<>>)

\* one minute, events at 12, 24, three labels: the third label is dropped; a
\* failure of 33 to 35 seconds can end past the end of the pump arrays
CallTruncated ==
    Arguments(NoSeed, 1, 12, 13, 33, 36, 40, 20, 5, <<1, 1, 0, 1, 0>>, 0,
              SubSeq(OwnStems, 1, 1), <<>>)

\* one minute, events at 12, 24: two lights, which no shuffle makes compliant
CallNeverCompliant ==
    Arguments(NoSeed, 1, 12, 13, 20, 22, 40, 20, 5, <<0, 0, 0, 2, 0>>, 0,
              SubSeq(OwnStems, 1, 1), <<>>)

\* one minute, all of it automated: no second to start the automation at
CallNoAutoStart ==
    Arguments(NoSeed, 1, 12, 13, 20, 22, 40, 20, 5, <<0, 1, 0, 1, 0>>, 1,
              SubSeq(OwnStems, 1, 1), <<>>)

\* one minute, events at 12, 24: a communication of a ship that has no stem
CallNoStem ==
    Arguments(NoSeed, 1, 12, 13, 20, 22, 40, 20, 5, <<0, 0, 1, 1, 0>>, 0,
              SubSeq(OwnStems, 1, 1), <<>>)

\* one minute, events at 12, 24: a light and a scale, no communication
CallNoComm ==
    Arguments(NoSeed, 1, 12, 13, 20, 22, 40, 20, 5, <<0, 0, 0, 1, 1>>, 0,
              SubSeq(OwnStems, 1, 1), <<>>)

Calls ==
    {CallLights, CallScales, CallComms, CallPumps, CallTruncated, CallNeverCompliant,
     CallNoAutoStart, CallNoStem,
     CallNoComm}

\* the seed of the reseeded calls
SeedOfReruns == 42

\* one minute, events at 12, 24: a pump failure and a communication
CallSeededPump ==
    Arguments(SeedOfReruns, 1, 12, 13, 20, 21, 40, 20, 5, <<1, 1, 0, 0, 0>>, 0,
              SubSeq(OwnStems, 1, 1), SubSeq(OtherStems, 1, 1))

\* one minute, events at 12, 24: a light and a communication
CallSeededLight ==
    Arguments(SeedOfReruns, 1, 12, 13, 20, 21, 40, 20, 5, <<0, 0, 1, 1, 0>>, 0,
              SubSeq(OwnStems, 1, 1), SubSeq(OtherStems, 1, 1))

\* the state at the call of matbii_generate_random_xml
InitCall(calls) ==
    /\ pc = "start"
    /\ CodecIdle
    /\ NpUnseeded
    /\ PipeIdle
    /\ SaveIdle
    /\ ScenarioIdle
    /\ ImportIdle
    /\ params \in calls
    /\ task_types = <<>>
    /\ event_times = <<>>
    /\ task_times_comply = FALSE
    /\ attempts = 0
    /\ n_attempts_budget = MaxAttempts
    /\ session_duration_seconds = 0
    /\ task_types_given = <<>>
    /\ event_times_given = <<>>

Init == InitCall(Calls)

Next ==
    \/ SeedIfGiven
    \/ InitializeMatbiiGeneration
    \/ GenerateEventTimesAndTaskTypes
    \/ AdjustTaskTypes
    \/ GenerateTasksBegin
    \/ ShuffleAndCheck
    \/ EnsureReturn
    \/ GenerateTasksBranch
    \/ RandomTasksDone
    \/ ResmanDrawFix
    \/ ResmanDrawPump
    \/ GenerateSysmonTask
    \/ GenerateCommTask
    \/ GenerateAutoAndCommStartStop
    \/ FinalizeMatbiiGeneration

Spec == Init /\ [][Next]_vars

\* a second call of matbii_generate_random_xml with the same arguments, in the
\* same process: the generator is as the first call left it
CallAgain ==
    /\ pc = "done"
    /\ run = 0
    /\ run' = 1
    /\ first_xml_string' = xml_string
    /\ pc' = "start"
    /\ root' = <<>>
    /\ n_inserted' = 0
    /\ comm_stems_per_ship' = [ship \in Ships |-> <<>>]
    /\ pump_failed_dict' = <<>>
    /\ n_task_types' = 0
    /\ n_event_times' = 0
    /\ task_index' = 0
    /\ resman' = NoResman
    /\ xml_string' = <<>>
    /\ task_types' = <<>>
    /\ event_times' = <<>>
    /\ task_times_comply' = FALSE
    /\ attempts' = 0
    /\ session_duration_seconds' = 0
    /\ task_types_given' = <<>>
    /\ event_times_given' = <<>>
    /\ UNCHANGED <<codecVars, saveVars, importVars, scenarioVars, callVars, npVars, raised, warnings>>

InitRerun == InitCall({CallSeededPump, CallSeededLight})

NextRerun == Next \/ CallAgain

SpecRerun == InitRerun /\ [][NextRerun]_vars

-----------------------------------------------------------------------------
(* Properties of the documents matbii_generate_random_xml returns.         *)

\* matbii_generate_random_xml has returned xml_string
Returned == pc = "done"

\* the decoded startTime values of the events of a document
DecodedTimes(document) ==
    [k \in 1..Len(document) |-> _parse_time_string(document[k].startTime).value] \o <<>>

\* the places of the communication tasks, of the lights and of the scales
CommTaskPlaces(document) == {k \in 1..Len(document) : document[k].child = "comm"}

LightPlaces(document) ==
    {k \in 1..Len(document) :
        /\ document[k].child = "sysmon"
        /\ \E m \in 1..Len(document[k].payload) :
              document[k].payload[m] = "monitoringLightType"}

ScalePlaces(document) ==
    {k \in 1..Len(document) :
        /\ document[k].child = "sysmon"
        /\ \E m \in 1..Len(document[k].payload) :
              document[k].payload[m] = "monitoringScaleNumber"}

\* any two of the places are at least gap seconds apart
Apart(times, places, gap) ==
    \A i \in places : \A j \in places :
        i # j => (times[i] - times[j] >= gap \/ times[j] - times[i] >= gap)

\* C2: in every returned document any two communication tasks are at least 30
\* seconds apart, any two sysmon lights at least 15 seconds apart and any two
\* sysmon scales at least 10 seconds apart
C2_SpacingInDocument ==
    Returned =>
        /\ Apart(DecodedTimes(xml_string), CommTaskPlaces(xml_string), 30)
        /\ Apart(DecodedTimes(xml_string), LightPlaces(xml_string), 15)
        /\ Apart(DecodedTimes(xml_string), ScalePlaces(xml_string), 10)

\* a document with two communications and two lights, returned after the
\* scheduler had to shuffle more than once, on event times less than 30 apart
C2_Witness ==
    /\ Returned
    /\ attempts > 1
    /\ Cardinality(CommTaskPlaces(xml_string)) = 2
    /\ Cardinality(LightPlaces(xml_string)) = 2
    /\ AnyBelow(Diff(event_times), 30)

\* the times at the places are after lo and before hi
Inside(times, places, lo, hi) == \A k \in places : times[k] > lo /\ times[k] < hi

\* C3: in every returned document no communication task lies within
\* seconds_after_comm_start seconds of the start of the session nor within
\* seconds_before_comm_stop seconds of its end
C3_CommInsideWindow ==
    Returned =>
        Inside(DecodedTimes(xml_string), CommTaskPlaces(xml_string),
               params.seconds_after_comm_start,
               session_duration_seconds - params.seconds_before_comm_stop)

\* a document with a communication, on event times of which one is too early
\* or too late for a communication
C3_Witness ==
    /\ Returned
    /\ CommTaskPlaces(xml_string) # {}
    /\ \E k \in 1..Len(event_times) :
          \/ event_times[k] <= params.seconds_after_comm_start
          \/ event_times[k] >= session_duration_seconds - params.seconds_before_comm_stop

\* the resman tasks of a tree: the pump, the decoded time of the fail event and
\* that of the fix event, which is inserted right after the fail event
ResmanTasks(rootSeq) ==
    LET fails == {a \in 1..Len(rootSeq) :
                     rootSeq[a].child = "resman" /\ rootSeq[a].payload[1] = "fail"}
        fix(a) == CHOOSE b \in 1..Len(rootSeq) : rootSeq[b].ins = rootSeq[a].ins + 1
    IN  {[pump |-> rootSeq[a].payload[2],
          fail_time |-> _get_seconds_from_elem(rootSeq[a]),
          fix_time |-> _get_seconds_from_elem(rootSeq[fix(a)]),
          ins |-> rootSeq[a].ins] : a \in fails}

\* two resman tasks whose [fail_time, fix_time) intervals have a second in common
Overlapping(one, other) == one.fail_time < other.fix_time /\ other.fail_time < one.fix_time

\* no two tasks of the same pump overlap
PairwiseDisjointPerPump(tasks) ==
    \A one \in tasks : \A other \in tasks :
        (one # other /\ one.pump = other.pump) => ~Overlapping(one, other)

\* some two tasks overlap
SomeOverlap(tasks) ==
    \E one \in tasks : \E other \in tasks : one # other /\ Overlapping(one, other)

\* C4: at every point of a generation, the [fail_time, fix_time) intervals of
\* any two resman tasks of the same pump are disjoint
C4_NoOverlapPerPump == PairwiseDisjointPerPump(ResmanTasks(root))

\* a returned document with two pump failures that overlap in time
C4_Witness ==
    /\ Returned
    /\ SomeOverlap(ResmanTasks(root))

\* C5: a second call with the same random_state (not None) and the same
\* arguments returns the document the first call returned, and has made the
\* draws the first call made
C5_SameSeedSameDocument ==
    (run = 1 /\ Returned) =>
        /\ xml_string = first_xml_string
        /\ np_random.pos = Len(np_stream.values)

\* a second call has returned a document with a pump failure
C5_Witness ==
    /\ run = 1
    /\ Returned
    /\ params.random_state # NoSeed
    /\ ResmanTasks(root) # {}

\* the times never decrease, and elements of the same time are in the order of
\* their insertion
InOrder(times, rootSeq) ==
    \A i \in 1..Len(rootSeq) : \A j \in 1..Len(rootSeq) :
        i < j => /\ times[i] <= times[j]
                 /\ times[i] = times[j] => rootSeq[i].ins < rootSeq[j].ins

\* a resman event from before the sort of the communication brackets and the
\* rate event from after it have the same time
RateTie(times, rootSeq) ==
    \E i \in 1..Len(rootSeq) : \E j \in 1..Len(rootSeq) :
        /\ i < j
        /\ rootSeq[j].child = "rate"
        /\ rootSeq[i].child = "resman"
        /\ times[i] = times[j]

\* C6: in the final document the decoded startTime values never decrease, and
\* events of the same time are in the order of their insertion
C6_SortedAndStable ==
    Returned =>
        /\ xml_string = tostring(root)
        /\ InOrder(DecodedTimes(xml_string), root)

\* a final document where the rate event, inserted after the sort of the
\* communication brackets, has the time of an event inserted before that sort
C6_Witness == Returned /\ RateTie(DecodedTimes(xml_string), root)

-----------------------------------------------------------------------------
(* gen_matbii_events.py: generate_and_save_xml, the retry around           *)
(* matbii_generate_random_xml.  A call of the generator is one step here:  *)
(* it returns a document and its two counts, or it raises.                 *)

MAX_ATTEMPTS == 100

\* the n_task_types one params_dict gives on every call, and the
\* n_event_times the calls can return with it
GivenTaskTypes == 3
PossibleEventTimes == {2, 3, 4}

\* what a call of matbii_generate_random_xml can do: return with n_event_times
\* event times, or raise
PossibleOutcomes ==
    {[raised |-> None, n_event_times |-> n] : n \in PossibleEventTimes}
        \cup {[raised |-> "IndexError", n_event_times |-> 0]}

\* seed_everything(random_state) makes the generator's result a function of
\* random_state and the parameters: a call with a random_state used before
\* (params_dict is the same in all calls) returns what it returned then
Reproduces(random_state, outcome) ==
    \A g \in generated : g[1] = random_state => g[2] = outcome

\* the results of the generator are followed for the random_states below
\* MaxRecorded
MaxRecorded == 3

Recorded(random_state, outcome) ==
    IF random_state < MaxRecorded THEN generated \cup {<<random_state, outcome>>}
    ELSE generated

\* the while condition of generate_and_save_xml
SaveLoopCondition == n_task_types # n_event_times /\ save_attempts < max_attempts

\* a loop body that calls the generator with the seed it was given every time
CallGenerateXml_same_seed ==
    /\ pc = "save"
    /\ SaveLoopCondition
    /\ \E outcome \in PossibleOutcomes :
          /\ Reproduces(seed_given, outcome)
          /\ generated' = Recorded(seed_given, outcome)
          /\ seeds_called' = Append(seeds_called, seed_given)
          /\ IF outcome.raised # None
             THEN /\ raised' = outcome.raised
                  /\ pc' = "raised"
                  /\ UNCHANGED <<random_xml, countVars, save_seed, save_attempts>>
             ELSE /\ random_xml' = [random_state |-> seed_given,
                                    n_task_types |-> GivenTaskTypes,
                                    n_event_times |-> outcome.n_event_times]
                  /\ n_task_types' = GivenTaskTypes
                  /\ n_event_times' = outcome.n_event_times
                  /\ save_seed' = save_seed + 1
                  /\ save_attempts' = save_attempts + 1
                  /\ UNCHANGED <<pc, raised>>
    /\ UNCHANGED <<codecVars, schedVars, npVars, docVars, comm_stems_per_ship,
                   pump_failed_dict, task_index, resman, xml_string, run,
                   first_xml_string, warnings, seed_given, max_attempts, files, logged, importVars,
                   scenarioVars>>

\* generate_and_save_xml: one iteration of its while loop
CallGenerateXml ==
    /\ pc = "save"
    /\ SaveLoopCondition
    /\ \E outcome \in PossibleOutcomes :
          /\ Reproduces(save_seed, outcome)
          /\ generated' = Recorded(save_seed, outcome)
          /\ seeds_called' = Append(seeds_called, save_seed)
          /\ IF outcome.raised # None
             THEN /\ raised' = outcome.raised
                  /\ pc' = "raised"
                  /\ UNCHANGED <<random_xml, countVars, save_seed, save_attempts>>
             ELSE /\ random_xml' = [random_state |-> save_seed,
                                    n_task_types |-> GivenTaskTypes,
                                    n_event_times |-> outcome.n_event_times]
                  /\ n_task_types' = GivenTaskTypes
                  /\ n_event_times' = outcome.n_event_times
                  /\ save_seed' = save_seed + 1
                  /\ save_attempts' = save_attempts + 1
                  /\ UNCHANGED <<pc, raised>>
    /\ UNCHANGED <<codecVars, schedVars, npVars, docVars, comm_stems_per_ship,
                   pump_failed_dict, task_index, resman, xml_string, run,
                   first_xml_string, warnings, seed_given, max_attempts, files, logged, importVars,
                   scenarioVars>>

\* generate_and_save_xml: if attempts == max_attempts: log the error and return
SaveGiveUp ==
    /\ pc = "save"
    /\ ~SaveLoopCondition
    /\ save_attempts = max_attempts
    /\ logged' = Append(logged, "Maximum attempts reached while generating XML.")
    /\ pc' = "saved"
    /\ UNCHANGED <<codecVars, schedVars, npVars, pipeVars, save_seed, seed_given,
                   save_attempts, max_attempts, seeds_called, random_xml, files, generated,
                   importVars, scenarioVars>>

\* generate_and_save_xml: the file is written; its name ends with str(seed)
SaveWrite ==
    /\ pc = "save"
    /\ ~SaveLoopCondition
    /\ save_attempts # max_attempts
    /\ files' = Append(files, [condition |-> condition, version |-> version,
                                seed_in_name |-> save_seed, text |-> random_xml])
    /\ pc' = "saved"
    /\ UNCHANGED <<codecVars, schedVars, npVars, pipeVars, save_seed, seed_given,
                   save_attempts, max_attempts, seeds_called, random_xml, logged, generated,
                   importVars, scenarioVars>>

VERSION_A == "a"
VERSION_B == "b"
VERSION_C == "c"
CONDITION_HIGH == "high"
CONDITION_LOW == "low"

\* the seeds and the values of max_attempts (none negative) explored
SeedsGiven == {0, 7}
MaxAttemptsGiven == {0, 1, 2, 3, MAX_ATTEMPTS}

\* the state at the call of generate_and_save_xml: n_task_types = -1,
\* n_event_times = 0, attempts = 0
InitSave ==
    /\ pc = "save"
    /\ CodecIdle
    /\ SchedIdle
    /\ NpUnseeded
    /\ root = <<>>
    /\ n_inserted = 0
    /\ comm_stems_per_ship = [ship \in Ships |-> <<>>]
    /\ pump_failed_dict = <<>>
    /\ n_task_types = 0 - 1
    /\ n_event_times = 0
    /\ task_index = 0
    /\ resman = NoResman
    /\ xml_string = <<>>
    /\ raised = None
    /\ run = 0
    /\ first_xml_string = <<>>
    /\ warnings = <<>>
    /\ seed_given \in SeedsGiven
    /\ save_seed = seed_given
    /\ save_attempts = 0
    /\ max_attempts \in MaxAttemptsGiven
    /\ ImportIdle
    /\ condition \in {CONDITION_HIGH, CONDITION_LOW}
    /\ version \in {VERSION_A, VERSION_B, VERSION_C}
    /\ scenarios_seed = 0
    /\ generated = {}
    /\ seeds_called = <<>>
    /\ random_xml = NoXml
    /\ files = <<>>
    /\ logged = <<>>

NextSave == CallGenerateXml \/ SaveGiveUp \/ SaveWrite

SpecSave == InitSave /\ [][NextSave]_vars

\* the generator has returned equal counts
CountsEqual == n_task_types = n_event_times

\* C11: generate_and_save_xml calls the generator at most max_attempts times,
\* with the seeds seed, seed + 1, seed + 2, ... in that order, calls it no more
\* once an attempt returned equal counts, and writes no file when the last
\* attempt returned unequal counts
C11_RetrySafety ==
    /\ [](/\ Len(seeds_called) <= max_attempts
          /\ \A k \in 1..Len(seeds_called) : seeds_called[k] = seed_given + (k - 1)
          /\ (pc = "saved" /\ ~CountsEqual) => (files = <<>>))
    /\ [][CountsEqual => seeds_called' = seeds_called]_vars

\* all MAX_ATTEMPTS attempts were made, the last one returned unequal counts,
\* and the call returned without a file
C11_Witness ==
    /\ pc = "saved"
    /\ max_attempts = MAX_ATTEMPTS
    /\ Len(seeds_called) = MAX_ATTEMPTS
    /\ ~CountsEqual
    /\ files = <<>>
    /\ logged # <<>>

\* C12: when an attempt of generate_and_save_xml returned equal counts, the
\* document of that attempt is written to a file, and the error is logged
\* only when all max_attempts attempts mismatched
C12_MatchIsWritten ==
    pc = "saved" =>
        /\ (seeds_called # <<>> /\ CountsEqual)
              => (Len(files) = 1 /\ files[1].text = random_xml /\ logged = <<>>)
        /\ logged # <<>> => ~CountsEqual

\* C26: the seed number in the name of a file written by
\* generate_and_save_xml is the random_state of the generation call that
\* produced the document written to it
C26_SeedInFileName ==
    \A k \in 1..Len(files) : files[k].seed_in_name = files[k].text.random_state

-----------------------------------------------------------------------------
(* SpecScenarios: gen_matbii_events.py, _create_matbii_scenarios: the loop *)
(* over the versions of one condition, each version written by a call of   *)
(* generate_and_save_xml.                                                  *)

\* for version in [VERSION_A, VERSION_B, VERSION_C]
Versions == <<VERSION_A, VERSION_B, VERSION_C>>

\* the conditions _create_matbii_scenarios is called with, one of them invalid
ConditionsGiven == {CONDITION_HIGH, CONDITION_LOW, "medium"}

\* the values of max_attempts _create_matbii_scenarios is called with
ScenarioAttemptsGiven == {1, 2, 3}

\* the version the for loop takes after the version v
NextVersion(v) ==
    IF v = None THEN Versions[1]
    ELSE Versions[(CHOOSE k \in 1..Len(Versions) : Versions[k] = v) + 1]

\* the for loop is at its head: before its first iteration, or the iteration
\* before has ended (generate_and_save_xml returned, or the version was skipped)
AtVersionLoop == pc \in {"scenarios", "saved"}

\* the state at the call of _create_matbii_scenarios: seed = 0
InitScenarios ==
    /\ pc = "scenarios"
    /\ CodecIdle
    /\ SchedIdle
    /\ NpUnseeded
    /\ PipeIdle
    /\ ImportIdle
    /\ condition \in ConditionsGiven
    /\ version = None
    /\ scenarios_seed = 0
    /\ max_attempts \in ScenarioAttemptsGiven
    /\ save_seed = 0
    /\ seed_given = 0
    /\ save_attempts = 0
    /\ seeds_called = <<>>
    /\ random_xml = NoXml
    /\ files = <<>>
    /\ logged = <<>>
    /\ generated = {}

\* _create_matbii_scenarios: the condition is neither high nor low
ScenariosInvalidCondition ==
    /\ pc = "scenarios"
    /\ version = None
    /\ condition \notin {CONDITION_HIGH, CONDITION_LOW}
    /\ logged' = Append(logged, "Invalid condition")
    /\ pc' = "scenarios_done"
    /\ UNCHANGED <<codecVars, schedVars, npVars, pipeVars, save_seed, seed_given,
                   save_attempts, max_attempts, seeds_called, random_xml, files, generated,
                   importVars, scenarioVars>>

\* _create_matbii_scenarios: one iteration of the for loop up to the call
\* generate_and_save_xml(seed, params_dict, output_folder, condition, version,
\* max_attempts), which starts with n_task_types = -1, n_event_times = 0 and
\* attempts = 0; the version c of the condition high is skipped
ScenariosNextVersion ==
    /\ AtVersionLoop
    /\ condition \in {CONDITION_HIGH, CONDITION_LOW}
    /\ version # Versions[Len(Versions)]
    /\ version' = NextVersion(version)
    /\ IF ~(condition = CONDITION_HIGH /\ version' = VERSION_C)
       THEN /\ save_seed' = scenarios_seed
            /\ seed_given' = scenarios_seed
            /\ save_attempts' = 0
            /\ seeds_called' = <<>>
            /\ n_task_types' = 0 - 1
            /\ n_event_times' = 0
            /\ pc' = "save"
       ELSE /\ pc' = "scenarios"
            /\ UNCHANGED <<save_seed, seed_given, save_attempts, seeds_called, countVars>>
    /\ UNCHANGED <<codecVars, schedVars, npVars, docVars, comm_stems_per_ship,
                   pump_failed_dict, task_index, resman, runVars, max_attempts, random_xml,
                   files, logged, generated, importVars, condition, scenarios_seed>>

\* _create_matbii_scenarios: the for loop is exhausted
ScenariosDone ==
    /\ AtVersionLoop
    /\ version = Versions[Len(Versions)]
    /\ pc' = "scenarios_done"
    /\ UNCHANGED <<codecVars, schedVars, npVars, pipeVars, saveVars, importVars, scenarioVars>>

NextScenarios ==
    \/ ScenariosInvalidCondition
    \/ ScenariosNextVersion
    \/ ScenariosDone
    \/ CallGenerateXml
    \/ SaveGiveUp
    \/ SaveWrite

SpecScenarios == InitScenarios /\ [][NextScenarios]_vars

\* C27: within one call of _create_matbii_scenarios the documents written for
\* the versions of the condition are generated from pairwise different seeds
C27_DistinctSeedsPerVersion ==
    \A j, k \in 1..Len(files) :
        j # k => files[j].text.random_state # files[k].text.random_state

-----------------------------------------------------------------------------
(* The event time sampler and the task type allocator on their own: the    *)
(* calls of matbii_generate_random_xml up to the return of                 *)
(* _adjust_task_types.                                                     *)

\* one minute, gaps of 5 or 6 seconds, five labels
AllocFine ==
    Arguments(NoSeed, 1, 5, 7, 20, 22, 40, 20, 5, <<1, 1, 1, 1, 1>>, 0, OwnStems, OtherStems)

\* one minute, gaps of 7 seconds (the last time kept is 35), two labels
AllocBoundary ==
    Arguments(NoSeed, 1, 7, 8, 20, 22, 40, 20, 5, <<0, 1, 0, 1, 0>>, 0, OwnStems, OtherStems)

\* one minute, gaps of 10 to 12 seconds, five labels
AllocCoarse ==
    Arguments(NoSeed, 1, 10, 13, 20, 22, 40, 20, 5, <<2, 1, 0, 1, 1>>, 0, OwnStems, OtherStems)

\* one minute, gaps of 8 or 9 seconds (60 / 8 = 7.5 draws), no label
AllocHalf ==
    Arguments(NoSeed, 1, 8, 10, 20, 22, 40, 20, 5, <<0, 0, 0, 0, 0>>, 0, OwnStems, OtherStems)

\* two minutes, gaps of 30 or 31 seconds, three labels
AllocLong ==
    Arguments(NoSeed, 2, 30, 32, 20, 22, 40, 20, 5, <<1, 1, 0, 0, 1>>, 1, OwnStems, OtherStems)

AllocCalls == {AllocFine, AllocBoundary, AllocCoarse, AllocHalf, AllocLong}

InitAlloc == InitCall(AllocCalls)

NextAlloc ==
    \/ SeedIfGiven
    \/ InitializeMatbiiGeneration
    \/ GenerateEventTimesAndTaskTypes
    \/ AdjustTaskTypes

SpecAlloc == InitAlloc /\ [][NextAlloc]_vars

\* _generate_event_times_and_task_types has returned
Sampled == pc = "adjust"

\* event_times strictly increases, starts at min_seconds_event_diff or later,
\* and its consecutive elements differ by a value of
\* [min_seconds_event_diff, max_seconds_event_diff)
SampledGaps ==
    /\ \A k \in 1..Len(event_times) : event_times[k] >= params.min_seconds_event_diff
    /\ \A k \in 1..(Len(event_times) - 1) :
          /\ event_times[k] < event_times[k + 1]
          /\ event_times[k + 1] - event_times[k] >= params.min_seconds_event_diff
          /\ event_times[k + 1] - event_times[k] < params.max_seconds_event_diff

\* C13 as stated: generate_random_events returns a strictly increasing
\* sequence with gaps in [min_gap, max_gap), every element t of which
\* satisfies min_gap <= t < session_duration - 25
C13_SamplerRangeStrict ==
    Sampled =>
        /\ SampledGaps
        /\ \A k \in 1..Len(event_times) :
              event_times[k]
                 < session_duration_seconds - _GRACE_SECONDS_BEFORE_SESSION_DURATION

\* C13 amended: generate_random_events returns a strictly increasing sequence
\* with gaps in [min_gap, max_gap), every element t of which satisfies
\* min_gap <= t <= session_duration - 25 (a time equal to session_duration - 25
\* is kept)
C13_SamplerRange ==
    Sampled =>
        /\ SampledGaps
        /\ \A k \in 1..Len(event_times) :
              event_times[k]
                 <= session_duration_seconds - _GRACE_SECONDS_BEFORE_SESSION_DURATION

\* a sequence of several times is returned whose last time is
\* session_duration - 25
C13_Witness ==
    /\ Sampled
    /\ Len(event_times) > 1
    /\ event_times[Len(event_times)]
          = session_duration_seconds - _GRACE_SECONDS_BEFORE_SESSION_DURATION

\* _adjust_task_types has returned
Adjusted == pc = "generate_tasks"

\* the task_types _adjust_task_types was called with
TaskTypesBefore ==
    generate_task_types(params.n_pump_failures, params.n_own_comm, params.n_other_comm,
                        params.n_green_red_issues, params.n_systems_up_down)

\* C14: _adjust_task_types returns len(event_times) labels: the first
\* len(event_times) labels of a longer input, or the whole of a shorter input
\* followed by labels of the five-label vocabulary; the counts returned are
\* the length of the input and len(event_times)
C14_AdjustedLength ==
    Adjusted =>
        /\ Len(task_types) = Len(event_times)
        /\ n_task_types = Len(TaskTypesBefore)
        /\ n_event_times = Len(event_times)
        /\ Len(TaskTypesBefore) >= Len(event_times)
              => task_types = SubSeq(TaskTypesBefore, 1, Len(event_times))
        /\ Len(TaskTypesBefore) < Len(event_times)
              => /\ SubSeq(task_types, 1, Len(TaskTypesBefore)) = TaskTypesBefore
                 /\ \A k \in (Len(TaskTypesBefore) + 1)..Len(task_types) :
                       task_types[k] \in TaskTypes

\* a longer input was truncated: a trailing category is gone
C14_Witness ==
    /\ Adjusted
    /\ Len(TaskTypesBefore) > Len(task_types)
    /\ Len(task_types) > 0
    /\ \A k \in 1..Len(task_types) : task_types[k] # "sysmon-scale"
    /\ params.n_systems_up_down > 0

\* a shorter input was padded with drawn labels
C14_WitnessPadded ==
    /\ Adjusted
    /\ Len(TaskTypesBefore) + 1 < Len(task_types)
    /\ task_types[Len(task_types)] = "comm-other"

-----------------------------------------------------------------------------
(* Resource management tasks.                                               *)

\* the eight resource units P1 .. P8
ResourceUnits == {"P" \o ToString(i) : i \in 1..8}

\* the units named by the fail and fix events of a document
UnitsNamed(rootSeq) ==
    {rootSeq[a].payload[2] : a \in {b \in 1..Len(rootSeq) : rootSeq[b].child = "resman"}}

\* C15: when _generate_resman_task draws the unit of a resman task, each of
\* the eight units P1 .. P8 is a possible outcome of the draw, and no fail or
\* fix event names a unit outside P1 .. P8
C15_EightUnits ==
    /\ pc = "resman_pump" => DrawablePumps = ResourceUnits
    /\ UnitsNamed(root) \subseteq ResourceUnits

\* the number of resman events of a document
ResmanCount(rootSeq) == Cardinality({a \in 1..Len(rootSeq) : rootSeq[a].child = "resman"})

\* the events fail and fix are the pair of a resman task at t: a fail at t and
\* a fix of the same unit at fix_time = t + g, with g in the configured range
\* and fix_time <= session_duration - 2
FailFixPair(t, fail, fix, fix_time) ==
    /\ fail.child = "resman"
    /\ fail.payload[1] = "fail"
    /\ _get_seconds_from_elem(fail) = t
    /\ fix.child = "resman"
    /\ fix.payload[1] = "fix"
    /\ fix.payload[2] = fail.payload[2]
    /\ fix_time - t >= params.min_seconds_fail_fix_resman
    /\ fix_time - t < params.max_seconds_fail_fix_resman
    /\ fix_time <= session_duration_seconds - 2

\* between before and after, exactly [t, fix_time) of the bitmap of unit is
\* newly marked and no other bitmap changes
MarkedExactly(before, after, unit, t, fix_time) ==
    /\ before[unit] \cap (t..(fix_time - 1)) = {}
    /\ after[unit] = before[unit] \cup (t..(fix_time - 1))
    /\ \A other \in (DOMAIN before) \ {unit} : after[other] = before[other]

\* C16: a resman task at time t materialized with a failure bitmap adds
\* exactly one fail event at t and one fix event of the same unit at t + g,
\* with min_seconds_fail_fix_resman <= g < max_seconds_fail_fix_resman and
\* t + g <= session_duration - 2, and marks exactly [t, t + g) of that unit's
\* bitmap, leaving the other bitmaps unchanged; no other step adds a resman
\* event
C16_FailFixPairing ==
    [][ /\ (pc = "resman_pump" /\ pc' = "random_tasks")
            => /\ Len(root') = Len(root) + 2
               /\ SubSeq(root', 1, Len(root)) = root
               /\ FailFixPair(event_times[task_index], root'[Len(root) + 1],
                              root'[Len(root) + 2],
                              _get_seconds_from_elem(root'[Len(root) + 2]))
               /\ MarkedExactly(pump_failed_dict, pump_failed_dict',
                                root'[Len(root) + 1].payload[2],
                                event_times[task_index],
                                _get_seconds_from_elem(root'[Len(root) + 2]))
        /\ ~(pc = "resman_pump" /\ pc' = "random_tasks")
            => ResmanCount(root') = ResmanCount(root) ]_vars

\* a resman task was paired with a fix at session_duration - 2, and its unit's
\* bitmap holds exactly the seconds from the fail up to the fix
C16_Witness ==
    /\ pc = "random_tasks"
    /\ \E task \in ResmanTasks(root) :
          /\ task.fix_time = session_duration_seconds - 2
          /\ pump_failed_dict[task.pump] = task.fail_time..(task.fix_time - 1)

-----------------------------------------------------------------------------
(* Communication stems.                                                     *)

\* the comm events of a document
CommEvents(rootSeq) == {a \in 1..Len(rootSeq) : rootSeq[a].child = "comm"}

\* what the comm events made of the stems of a list carry
PayloadsOf(stems) == {CommPayload(stems[k]) : k \in 1..Len(stems)}

\* the stems the call was given for a ship
StemsGiven(ship) == IF ship = "OWN" THEN params.comm_stems["own"] ELSE params.comm_stems["other"]

\* the stems of a ship are either still in its list or on one comm event each:
\* the list has shrunk by the number of comm events of the ship, no stem left
\* in the list is on an event, and no two comm events carry the same stem
PoolAccounted(rootSeq, ship, given, left) ==
    /\ Len(left) + Cardinality({a \in CommEvents(rootSeq) : rootSeq[a].payload \in given})
          = Cardinality(given)
    /\ PayloadsOf(left) \subseteq given
    /\ \A a \in CommEvents(rootSeq) : rootSeq[a].payload \notin PayloadsOf(left)
    /\ \A a, b \in CommEvents(rootSeq) :
          rootSeq[a].payload = rootSeq[b].payload => a = b

-----------------------------------------------------------------------------
(* The automation window.                                                   *)

\* _generate_auto_and_comm_start_stop has returned
AutoReturned == pc \in {"finalize", "done"}

\* the TRACK events of a document that the initial document did not hold
TrackEvents(rootSeq) ==
    {a \in 1..Len(rootSeq) : /\ rootSeq[a].child = "sched"
                             /\ rootSeq[a].payload[1] = "TRACK"
                             /\ rootSeq[a].ins > Len(InitialEvents) + 1}

\* the n-th TRACK event in the order of emission
TrackEmitted(rootSeq, n) ==
    CHOOSE a \in TrackEvents(rootSeq) :
        Cardinality({b \in TrackEvents(rootSeq) : rootSeq[b].ins < rootSeq[a].ins}) = n - 1

\* the actions of the three TRACK events emitted: AUTO, MANUAL, AUTO
TrackActions(rootSeq) ==
    /\ Cardinality(TrackEvents(rootSeq)) = 3
    /\ rootSeq[TrackEmitted(rootSeq, 1)].payload[2] = "AUTO"
    /\ rootSeq[TrackEmitted(rootSeq, 2)].payload[2] = "MANUAL"
    /\ rootSeq[TrackEmitted(rootSeq, 3)].payload[2] = "AUTO"

\* the window as stated: AUTO at a in [5, session_duration - auto - 5], MANUAL
\* at a + auto, AUTO at session_duration - 3, strictly in this order
WindowStrict(a, manual, final, auto, duration) ==
    /\ 5 <= a
    /\ a <= duration - auto - 5
    /\ manual = a + auto
    /\ final = duration - 3
    /\ a < manual
    /\ manual < final

\* the window of the code: a below session_duration - auto - 5, MANUAL not
\* before AUTO and after it when the automation lasts a minute or more
Window(a, manual, final, auto, duration) ==
    /\ 5 <= a
    /\ a < duration - auto - 5
    /\ manual = a + auto
    /\ final = duration - 3
    /\ a <= manual
    /\ auto > 0 => a < manual
    /\ manual < final

-----------------------------------------------------------------------------
(* _generate_all_comm_start_stop on its own: documents that hold the        *)
(* initial events and comm events at chosen times, under chosen thresholds. *)

\* the times a comm event can have, the thresholds, in a session of one minute
CommTimesGiven == {0, 5, 20, 50, 60}
SecondsAfterGiven == {5, 18}
SecondsBeforeGiven == {10, 20}
MinNoCommGiven == {15, 40}

\* the arguments of the call for the given thresholds
BracketArguments(min_seconds_to_indicate_no_comm, seconds_before_comm_stop, seconds_after_comm_start) ==
    Arguments(NoSeed, 1, 5, 6, 20, 22, min_seconds_to_indicate_no_comm,
              seconds_before_comm_stop, seconds_after_comm_start, <<0, 0, 0, 0, 0>>, 0,
              OwnStems, OtherStems)

\* comm events at the given times, the latest first
RECURSIVE CommEventsAt(_)
CommEventsAt(times) ==
    IF times = {} THEN <<>>
    ELSE LET latest == CHOOSE t \in times : \A u \in times : u <= t
         IN  <<Event(_format_seconds(latest), "comm", CommPayload(OwnStems[1]))>>
                \o CommEventsAt(times \ {latest})

InitBracket ==
    /\ pc = "bracket"
    /\ CodecIdle
    /\ NpUnseeded
    /\ SaveIdle
    /\ ScenarioIdle
    /\ ImportIdle
    /\ \E min_seconds_to_indicate_no_comm \in MinNoCommGiven,
          seconds_before_comm_stop \in SecondsBeforeGiven,
          seconds_after_comm_start \in SecondsAfterGiven :
          params = BracketArguments(min_seconds_to_indicate_no_comm,
                                    seconds_before_comm_stop, seconds_after_comm_start)
    /\ session_duration_seconds = 60
    /\ \E times \in SUBSET CommTimesGiven :
          /\ root = AppendEvents(<<>>, 0,
                        InitialEvents
                        \o <<Event(<<"0", ":", "0", "0", ":", "0", "0">>, "control", <<"START">>)>>
                        \o CommEventsAt(times))
          /\ n_inserted = 3 + Cardinality(times)
    /\ task_types = <<>>
    /\ event_times = <<>>
    /\ task_times_comply = FALSE
    /\ attempts = 0
    /\ n_attempts_budget = MaxAttempts
    /\ task_types_given = <<>>
    /\ event_times_given = <<>>
    /\ comm_stems_per_ship = [ship \in Ships |-> <<>>]
    /\ pump_failed_dict = <<>>
    /\ n_task_types = 0
    /\ n_event_times = 0
    /\ task_index = 0
    /\ resman = NoResman
    /\ xml_string = <<>>
    /\ raised = None
    /\ run = 0
    /\ first_xml_string = <<>>
    /\ warnings = <<>>

\* the call of _generate_all_comm_start_stop
GenerateAllCommStartStop ==
    /\ pc = "bracket"
    /\ AfterCommStartStop(
           _generate_all_comm_start_stop(root, n_inserted,
                                         params.min_seconds_to_indicate_no_comm,
                                         params.seconds_before_comm_stop,
                                         params.seconds_after_comm_start,
                                         session_duration_seconds))
    /\ UNCHANGED <<codecVars, saveVars, importVars, scenarioVars, schedVars, npVars, comm_stems_per_ship,
                   pump_failed_dict, countVars, task_index, resman, xml_string, run,
                   first_xml_string>>

NextBracket == GenerateAllCommStartStop

SpecBracket == InitBracket /\ [][NextBracket]_vars

\* _generate_all_comm_start_stop has returned
Bracketed == pc = "finalize"

\* the COMM sched events of a document
CommSched(rootSeq) ==
    {a \in 1..Len(rootSeq) : rootSeq[a].child = "sched" /\ rootSeq[a].payload[1] = "COMM"}

\* the COMM sched events of a document in the order of emission, each as its
\* action and its time
CommSchedEmitted(rootSeq) ==
    LET nth(n) == CHOOSE a \in CommSched(rootSeq) :
                     Cardinality({b \in CommSched(rootSeq) :
                                     rootSeq[b].ins < rootSeq[a].ins}) = n - 1
    IN  [n \in 1..Cardinality(CommSched(rootSeq)) |->
            [action |-> rootSeq[nth(n)].payload[2],
             time |-> _get_seconds_from_elem(rootSeq[nth(n)])]]

\* the sorted times of the comm events of a document
CommTimesOf(rootSeq) == _get_comm_task_times(_sort_events_by_seconds(rootSeq))

\* the STOP and START events that bracket the gaps of the comm times c: for
\* each consecutive pair more than min_seconds_to_indicate_no_comm apart, in
\* order, a STOP at c[i] + seconds_before_comm_stop and a START at
\* c[i + 1] - seconds_after_comm_start
GapBrackets(c) ==
    LET wide == Where([i \in 1..(Len(c) - 1) |->
                          c[i + 1] - c[i] > params.min_seconds_to_indicate_no_comm])
    IN  [n \in 1..(2 * Len(wide)) |->
            IF n % 2 = 1
            THEN [action |-> "STOP",
                  time |-> c[wide[(n + 1) \div 2]] + params.seconds_before_comm_stop]
            ELSE [action |-> "START",
                  time |-> c[wide[n \div 2] + 1] - params.seconds_after_comm_start]]

\* the events emitted between the first START and the final STOP are the
\* brackets of the gaps
OnlyGapBrackets(emitted, c) ==
    /\ Len(emitted) >= 2
    /\ SubSeq(emitted, 2, Len(emitted) - 1) = GapBrackets(c)

\* C19: for the sorted communication times c1..cn,
\* _generate_all_comm_start_stop emits between the first START and the final
\* STOP a STOP at c_i + seconds_before_comm_stop with a START at
\* c_(i+1) - seconds_after_comm_start exactly for the consecutive pairs with
\* c_(i+1) - c_i > min_seconds_to_indicate_no_comm, and no other pair,
\* whatever the parameter values
C19_GapBracketing ==
    Bracketed => OnlyGapBrackets(CommSchedEmitted(root), CommTimesOf(root))

\* the first START is at first_comm - seconds_after_comm_start without a
\* warning, or at first_comm with the warning exactly when that difference is
\* negative; it is never negative
FirstStart(first, first_comm, warned) ==
    /\ first.action = "START"
    /\ first.time >= 0
    /\ IF first_comm - params.seconds_after_comm_start < 0
       THEN first.time = first_comm /\ warned
       ELSE first.time = first_comm - params.seconds_after_comm_start /\ ~warned

\* the final STOP is at last_comm + seconds_before_comm_stop, or at
\* session_duration with the warning when that is after session_duration; it
\* is never after session_duration
FinalStop(final, last_comm, warned) ==
    /\ final.action = "STOP"
    /\ final.time <= session_duration_seconds
    /\ IF last_comm + params.seconds_before_comm_stop > session_duration_seconds
       THEN final.time = session_duration_seconds /\ warned
       ELSE final.time = last_comm + params.seconds_before_comm_stop

\* a warning of the sequence is the given text
Warned(text) == \E k \in 1..Len(warnings) : warnings[k] = text

\* the boundary events of a returned call
Boundaries(emitted, c) ==
    /\ Len(emitted) >= 2
    /\ FirstStart(emitted[1], c[1], Warned(FirstCommWarning(params.seconds_after_comm_start)))
    /\ FinalStop(emitted[Len(emitted)], c[Len(c)],
                 Warned(LastCommWarning(c[Len(c)], params.seconds_before_comm_stop)))

\* C20: for a non-empty set of communication times within
\* [0, session_duration], _generate_all_comm_start_stop returns without an
\* error; the first COMM START is at first_comm - seconds_after_comm_start, or
\* at first_comm with a warning exactly when that difference is negative, and
\* never negative; the final COMM STOP is at last_comm +
\* seconds_before_comm_stop, or at session_duration with a warning when that
\* margin is unavailable, and never after session_duration
C20_DegenerateBoundaries ==
    /\ (pc = "raised") => CommTimesOf(root) = <<>>
    /\ Bracketed => Boundaries(CommSchedEmitted(root), CommTimesOf(root))

-----------------------------------------------------------------------------
(* The frame of a returned document.                                        *)

\* the document, whose events have the given times, begins with the control
\* START event at 0, holds a rate START event at duration - 2 and ends with
\* the control END event at duration; no event is later than duration
Framed(document, times, duration) ==
    /\ Len(document) >= 3
    /\ document[1].child = "control"
    /\ document[1].payload = <<"START">>
    /\ times[1] = 0
    /\ \E k \in 1..Len(document) :
          /\ document[k].child = "rate"
          /\ document[k].payload = <<"START">>
          /\ times[k] = duration - 2
    /\ document[Len(document)].child = "control"
    /\ document[Len(document)].payload = <<"END">>
    /\ times[Len(document)] = duration
    /\ \A k \in 1..Len(document) : times[k] <= duration

\* C21: every document matbii_generate_random_xml returns holds a rate START
\* event at session_duration - 2 and a control END event at session_duration;
\* control START (time 0) is its first event and control END its last, and no
\* event has a time greater than session_duration
C21_SerializerFraming ==
    Returned => Framed(xml_string, DecodedTimes(xml_string), session_duration_seconds)

\* a two-minute document is returned, framed by control START and control END
C21_Witness ==
    /\ Returned
    /\ session_duration_seconds = 120
    /\ xml_string[1].payload = <<"START">>
    /\ xml_string[Len(xml_string)].payload = <<"END">>
    /\ xml_string[Len(xml_string) - 1].child = "rate"

-----------------------------------------------------------------------------
(* _remove_events on its own, on documents of up to MaxRemoveLen events.    *)

MaxRemoveLen == 3

\* event.find(tag): the child of the event with that tag, or None
find(event, tag) ==
    IF event.child = tag THEN [found |-> TRUE, len |-> Len(event.payload)]
    ELSE [found |-> FALSE, len |-> 0]

\* bool(element): an Element is true when it has children, None is false
bool(element) == element.found /\ element.len # 0

\* a _remove_events that removes nothing
_remove_events_nothing(rootSeq, tag) == rootSeq

\* _remove_events: root[:] = [event for event in root if not event.find(event_type)]
_remove_events(rootSeq, tag) ==
    Take(rootSeq, Where([k \in 1..Len(rootSeq) |-> ~bool(find(rootSeq[k], tag))]))

\* the events a document handed to _remove_events is made of: a child without
\* children of its own (as SubElement(event, "sysmon") makes it) or the
\* children the generator gives it
RemovableEvents ==
    { Event(<<"0", "0", ":", "0", "1", ":", "0", "0">>, "sysmon", <<>>),
      Event(<<"0", "0", ":", "0", "2", ":", "0", "0">>, "communications", <<>>),
      Event(<<"0", "0", ":", "0", "0", ":", "1", "2">>, "sysmon", LightPayload("RED")),
      Event(<<"0", "0", ":", "0", "0", ":", "2", "4">>, "comm", CommPayload(OwnStems[1])),
      Event(<<"0", "0", ":", "0", "0", ":", "3", "0">>, "resman", <<"fail", "P1">>) }

EventTypes == {"sysmon", "comm"}

InitRemove ==
    /\ pc = "remove"
    /\ CodecIdle
    /\ SchedIdle
    /\ NpUnseeded
    /\ SaveIdle
    /\ ScenarioIdle
    /\ text_file = NoTextFile
    /\ event_type \in EventTypes
    /\ \E n \in 0..MaxRemoveLen : \E events \in [1..n -> RemovableEvents] :
          /\ root = AppendEvents(<<>>, 0, events)
          /\ n_inserted = n
    /\ comm_stems_per_ship = [ship \in Ships |-> <<>>]
    /\ pump_failed_dict = <<>>
    /\ n_task_types = 0
    /\ n_event_times = 0
    /\ task_index = 0
    /\ resman = NoResman
    /\ xml_string = <<>>
    /\ raised = None
    /\ run = 0
    /\ first_xml_string = <<>>
    /\ warnings = <<>>

\* the call _remove_events(root, event_type)
RemoveEvents ==
    /\ pc = "remove"
    /\ root' = _remove_events(root, event_type)
    /\ pc' = "removed"
    /\ UNCHANGED <<codecVars, saveVars, importVars, scenarioVars, schedVars, npVars, n_inserted,
                   comm_stems_per_ship, pump_failed_dict, countVars, task_index, resman,
                   runVars>>

NextRemove == RemoveEvents

SpecRemove == InitRemove /\ [][NextRemove]_vars

\* the events of a document without a child of the given tag, in order
Without(rootSeq, tag) ==
    Take(rootSeq, Where([k \in 1..Len(rootSeq) |-> rootSeq[k].child # tag]))

\* C22: after _remove_events(root, T) no remaining event has a child tagged
\* T, whether or not that child has children of its own, and every event
\* without a child tagged T is still present, in its original relative order
C22_RemoveEvents ==
    [][pc = "remove" => root' = Without(root, event_type)]_vars

-----------------------------------------------------------------------------
(* convert_from_openmatb.py: matbii_generate_random_xml_with_text_file.     *)
(* The call runs the steps of matbii_generate_random_xml with               *)
(* _update_xml_with_text_file between _generate_tasks and                   *)
(* _generate_auto_and_comm_start_stop.                                      *)

LowerCase ==
    <<"a", "b", "c", "d", "e", "f", "g", "h", "i", "j", "k", "l", "m", "n", "o", "p",
      "q", "r", "s", "t", "u", "v", "w", "x", "y", "z">>
UpperCase ==
    <<"A", "B", "C", "D", "E", "F", "G", "H", "I", "J", "K", "L", "M", "N", "O", "P",
      "Q", "R", "S", "T", "U", "V", "W", "X", "Y", "Z">>

\* str.upper()
ToUpper(text) ==
    [k \in 1..Len(text) |->
        IF \E c \in 1..Len(LowerCase) : LowerCase[c] = text[k]
        THEN UpperCase[CHOOSE c \in 1..Len(LowerCase) : LowerCase[c] = text[k]]
        ELSE text[k]]

\* sub in text
Contains(text, sub) ==
    \E i \in 1..(Len(text) - Len(sub) + 1) : SubSeq(text, i, i + Len(sub) - 1) = sub

\* line.startswith("#")
StartsWithHash(line) == Len(line) > 0 /\ line[1] = "#"

\* line.strip() == ""
IsBlank(line) == \A k \in 1..Len(line) : line[k] \in {" ", "\n", "\t", "\r"}

\* re.split(";|\n", line)
ReSplit(line) == Split([k \in 1..Len(line) |-> IF line[k] = "\n" THEN ";" ELSE line[k]], ";")

\* the words convert_text_file compares the fields of a line with
TaskSysmon ==
    <<"s", "y", "s", "m", "o", "n">>

\* task == "communications"
TaskCommunications ==
    <<"c", "o", "m", "m", "u", "n", "i", "c", "a", "t", "i", "o", "n", "s">>

\* action == "radioprompt"
ActionRadioprompt ==
    <<"r", "a", "d", "i", "o", "p", "r", "o", "m", "p", "t">>

\* "scales-" in action
ScalesDash ==
    <<"s", "c", "a", "l", "e", "s", "-">>

\* "lights-" in action
LightsDash ==
    <<"l", "i", "g", "h", "t", "s", "-">>

\* the keys of the stems dictionary
ShipOwn ==
    <<"O", "W", "N">>

\* the key of the stems of the other ships
ShipOther ==
    <<"O", "T", "H", "E", "R">>

\* convert_sysmon_lights_to_xml
convert_sysmon_lights_to_xml(time, action) ==
    LET light_number == Split(action, "-")[2]
        light_color == IF Contains(light_number, <<"1">>) THEN "GREEN" ELSE "RED"
    IN  Event(time, "sysmon", <<"activity", "START", "monitoringLightType", light_color>>)

\* convert_sysmon_scales_to_xml, which draws the direction; int() and the
\* index into the list of four names may raise
convert_sysmon_scales_to_xml(time, action, drawn) ==
    LET scale_number == Split(action, "-")[2]
        index == IntValue(scale_number) - 1
    IN  IF ~IsIntLiteral(scale_number) THEN [raised |-> "ValueError", event |-> <<>>]
        ELSE IF index > 3 \/ index < 0 - 4 THEN [raised |-> "IndexError", event |-> <<>>]
        ELSE [raised |-> None,
              event |-> Event(time, "sysmon",
                              <<"monitoringScaleNumber", ScaleNumbers[(index % 4) + 1],
                                "monitoringScaleDirection", ScaleDirections[drawn]>>)]

\* convert_communications_to_xml, which draws a stem of the built-in lists of
\* the ship named by the line
convert_communications_to_xml(time, action, drawn) ==
    LET ship == ToUpper(action)
        comm_stems == IF ship = ShipOwn THEN OwnStems ELSE OtherStems
        split_comm_stem == CommPayload(comm_stems[drawn])
    IN  IF ship \notin {ShipOwn, ShipOther} THEN [raised |-> "KeyError", event |-> <<>>]
        ELSE [raised |-> None,
              event |-> Event(time, "comm",
                              <<ship, ToUpper(split_comm_stem[2]), split_comm_stem[3]>>)]

\* an event in front of the events of the lines that follow, or what was raised
Converted(outcome, rest) ==
    IF outcome.raised # None THEN [raised |-> outcome.raised, events |-> <<>>]
    ELSE IF rest.raised # None THEN rest
    ELSE [raised |-> None, events |-> <<outcome.event>> \o rest.events]

\* convert_text_file: the loop over the lines from the k-th line on; info is
\* the local of that name in a 1-tuple (<<>> while unbound), drawn the values
\* the random draws return and d the number of the next draw
RECURSIVE ConvertLinesFrom(_, _, _, _, _)
ConvertLinesFrom(lines, k, info, drawn, d) ==
    IF k > Len(lines) THEN [raised |-> None, events |-> <<>>]
    ELSE IF StartsWithHash(lines[k]) \/ IsBlank(lines[k])
    THEN ConvertLinesFrom(lines, k + 1, info, drawn, d)
    ELSE
      LET split_line == ReSplit(lines[k])
          time == split_line[1]
          task == split_line[2]
          action == split_line[3]
          parsed == _parse_time_string(time)
          info_now == IF Len(split_line) > 3 THEN <<split_line[4]>> ELSE info
      IN  IF Len(split_line) < 3 THEN [raised |-> "ValueError", events |-> <<>>]
          ELSE IF parsed.raised # "" THEN [raised |-> "ValueError", events |-> <<>>]
          ELSE IF task = TaskSysmon /\ Contains(action, ScalesDash)
          THEN Converted(convert_sysmon_scales_to_xml(_format_seconds(parsed.value),
                                                      action, drawn[d]),
                         ConvertLinesFrom(lines, k + 1, info_now, drawn, d + 1))
          ELSE IF task = TaskSysmon /\ Contains(action, LightsDash)
          THEN Converted([raised |-> None,
                          event |-> convert_sysmon_lights_to_xml(
                                        _format_seconds(parsed.value), action)],
                         ConvertLinesFrom(lines, k + 1, info_now, drawn, d))
          ELSE IF task = TaskCommunications /\ action = ActionRadioprompt
          THEN IF info_now = <<>> THEN [raised |-> "UnboundLocalError", events |-> <<>>]
               ELSE Converted(convert_communications_to_xml(
                                  _format_seconds(parsed.value), info_now[1], drawn[d]),
                              ConvertLinesFrom(lines, k + 1, info_now, drawn, d + 1))
          ELSE ConvertLinesFrom(lines, k + 1, info_now, drawn, d)

\* convert_text_file
convert_text_file(lines, drawn) == ConvertLinesFrom(lines, 1, <<>>, drawn, 1)

\* the number of lines of a file that can make convert_text_file draw
DrawingLines(lines) ==
    Cardinality({k \in 1..Len(lines) :
                    Contains(lines[k], ScalesDash) \/ Contains(lines[k], ActionRadioprompt)})

\* the tree after _update_xml_with_text_file
Updated(rootSeq, inserted, converted) ==
    /\ raised' = converted.raised
    /\ IF converted.raised # None
       THEN pc' = "raised" /\ UNCHANGED docVars
       ELSE /\ root' = AppendEvents(_remove_events(_remove_events(rootSeq, "sysmon"), "comm"),
                                    inserted, converted.events)
            /\ n_inserted' = inserted + Len(converted.events)
            /\ pc' = "auto"

\* _update_xml_with_text_file, in a call without random_state (the draws of
\* convert_text_file leave no trace in the generator)
UpdateXmlWithTextFile ==
    /\ pc = "update"
    /\ np_random.seed = NoSeed
    /\ \E drawn \in [1..DrawingLines(text_file[1]) -> 1..2] :
          Updated(root, n_inserted, convert_text_file(text_file[1], drawn))
    /\ UNCHANGED <<codecVars, saveVars, importVars, scenarioVars, schedVars, npVars, comm_stems_per_ship,
                   pump_failed_dict, countVars, task_index, resman, xml_string, run,
                   first_xml_string, warnings>>

\* a text file with a comment, a blank line, a track line and a line of each kind converted
TextFileBlocks ==
    <<
      <<"#", " ", "B", "l", "o", "c", "k", " ", "3", "\n">>,
      <<"\n">>,
      <<"0", ":", "0", "0", ":", "0", "0", ";", "t", "r", "a", "c", "k", ";", "s", "t",
        "a", "r", "t", "\n">>,
      <<"0", ":", "0", "0", ":", "2", "0", ";", "s", "y", "s", "m", "o", "n", ";", "l",
        "i", "g", "h", "t", "s", "-", "1", "-", "f", "a", "i", "l", "u", "r", "e", ";",
        "T", "r", "u", "e", "\n">>,
      <<"0", ":", "0", "0", ":", "3", "1", ";", "s", "y", "s", "m", "o", "n", ";", "s",
        "c", "a", "l", "e", "s", "-", "3", "-", "f", "a", "i", "l", "u", "r", "e", ";",
        "T", "r", "u", "e", "\n">>,
      <<"0", ":", "0", "0", ":", "2", "5", ";", "c", "o", "m", "m", "u", "n", "i", "c",
        "a", "t", "i", "o", "n", "s", ";", "r", "a", "d", "i", "o", "p", "r", "o", "m",
        "p", "t", ";", "o", "t", "h", "e", "r", "\n">>
    >>

\* a text file with a light, a communication of the own ship and a stop line
TextFileOwn ==
    <<
      <<"0", ":", "0", "0", ":", "4", "0", ";", "s", "y", "s", "m", "o", "n", ";", "l",
        "i", "g", "h", "t", "s", "-", "2", "-", "f", "a", "i", "l", "u", "r", "e", ";",
        "T", "r", "u", "e", "\n">>,
      <<"0", ":", "0", "0", ":", "1", "2", ";", "c", "o", "m", "m", "u", "n", "i", "c",
        "a", "t", "i", "o", "n", "s", ";", "r", "a", "d", "i", "o", "p", "r", "o", "m",
        "p", "t", ";", "o", "w", "n", "\n">>,
      <<"0", ":", "0", "1", ":", "0", "0", ";", "c", "o", "m", "m", "u", "n", "i", "c",
        "a", "t", "i", "o", "n", "s", ";", "s", "t", "o", "p", "\n">>
    >>

\* a text file without a communication
TextFileNoComm ==
    <<
      <<"0", ":", "0", "0", ":", "1", "0", ";", "s", "y", "s", "m", "o", "n", ";", "s",
        "c", "a", "l", "e", "s", "-", "1", "-", "f", "a", "i", "l", "u", "r", "e", ";",
        "T", "r", "u", "e", "\n">>
    >>

TextFiles == {TextFileBlocks, TextFileOwn, TextFileNoComm}

\* one minute, events at 10, 20 and 30: a pump failure, a communication of
\* the own ship and a light
ImportCallTasks ==
    Arguments(NoSeed, 1, 10, 11, 22, 23, 40, 20, 5, <<1, 1, 0, 1, 0>>, 0,
              SubSeq(OwnStems, 1, 1), <<>>)

ImportCalls == {ImportCallTasks, CallNeverCompliant}

InitImport ==
    /\ pc = "start"
    /\ CodecIdle
    /\ NpUnseeded
    /\ PipeIdle
    /\ SaveIdle
    /\ ScenarioIdle
    /\ event_type = None
    /\ \E lines \in TextFiles : text_file = <<lines>>
    /\ params \in ImportCalls
    /\ task_types = <<>>
    /\ event_times = <<>>
    /\ task_times_comply = FALSE
    /\ attempts = 0
    /\ n_attempts_budget = MaxAttempts
    /\ session_duration_seconds = 0
    /\ task_types_given = <<>>
    /\ event_times_given = <<>>

NextImport ==
    \/ Next
    \/ UpdateXmlWithTextFile

SpecImport == InitImport /\ [][NextImport]_vars

\* matbii_generate_random_xml_with_text_file has returned a document
ImportReturned == pc = "done" /\ text_file # NoTextFile

\* a field of one digit with a zero in front
PadTwo(field) == IF Len(field) = 1 THEN <<"0">> \o field ELSE field

\* the time of a line, H:MM:SS, as zero-padded HH:MM:SS
ZeroPadded(time) ==
    LET fields == Split(time, ":")
    IN  PadTwo(fields[1]) \o <<":">> \o PadTwo(fields[2]) \o <<":">> \o PadTwo(fields[3])

\* text begins with prefix
BeginsWith(text, prefix) ==
    Len(text) >= Len(prefix) /\ SubSeq(text, 1, Len(prefix)) = prefix

\* the fields of a line: the text between the semicolons, without the newline
FieldsOf(line) ==
    Split(IF line[Len(line)] = "\n" THEN SubSeq(line, 1, Len(line) - 1) ELSE line, ";")

\* the child of the event a line stands for: "sysmon" for sysmon lights-* and
\* sysmon scales-*, "comm" for communications radioprompt, "none" for comment
\* lines, blank lines and every other kind of line
KindOfLine(line) ==
    IF line[1] = "#" \/ line = <<"\n">> THEN "none"
    ELSE IF /\ FieldsOf(line)[2] = TaskSysmon
            /\ \/ BeginsWith(FieldsOf(line)[3], LightsDash)
               \/ BeginsWith(FieldsOf(line)[3], ScalesDash)
    THEN "sysmon"
    ELSE IF FieldsOf(line)[2] = TaskCommunications /\ FieldsOf(line)[3] = ActionRadioprompt
    THEN "comm"
    ELSE "none"

\* the sysmon and comm events of the document are one event per line that
\* stands for one, each at the zero-padded time of its line
OnePerLine(document, lines) ==
    LET imported == {a \in 1..Len(document) : document[a].child \in {"sysmon", "comm"}}
        standing == {k \in 1..Len(lines) : KindOfLine(lines[k]) # "none"}
    IN  /\ Cardinality(imported) = Cardinality(standing)
        /\ \A k \in standing :
              Cardinality({a \in imported :
                              /\ document[a].child = KindOfLine(lines[k])
                              /\ document[a].startTime = ZeroPadded(FieldsOf(lines[k])[1])})
                 = Cardinality({j \in standing :
                                   /\ KindOfLine(lines[j]) = KindOfLine(lines[k])
                                   /\ FieldsOf(lines[j])[1] = FieldsOf(lines[k])[1]})

\* the resman events of a document, in order
ResmanEvents(rootSeq) ==
    Take(rootSeq, Where([k \in 1..Len(rootSeq) |-> rootSeq[k].child = "resman"]))

\* C23: in the document matbii_generate_random_xml_with_text_file returns,
\* the sysmon and comm events are exactly one event per text line of kind
\* sysmon lights-*, sysmon scales-* or communications radioprompt, each at the
\* line's time as zero-padded HH:MM:SS (comment lines, blank lines and other
\* kinds of line give no event), so no sysmon or comm event of the generator
\* remains; _update_xml_with_text_file keeps the resman fail and fix events of
\* the generator unchanged
C23_TextImportSplice ==
    /\ [](ImportReturned => OnePerLine(xml_string, text_file[1]))
    /\ [][(pc = "update" /\ pc' = "auto") => ResmanEvents(root') = ResmanEvents(root)]_vars

\* a document is returned for the file with a comment, a blank line and a line
\* of each kind, after the generator had placed a pump failure, a
\* communication and a light
C23_Witness ==
    /\ ImportReturned
    /\ text_file = <<TextFileBlocks>>
    /\ task_times_comply
    /\ ResmanCount(xml_string) = 2
    /\ Cardinality({a \in 1..Len(xml_string) : xml_string[a].child = "comm"}) = 1
    /\ Cardinality({a \in 1..Len(xml_string) : xml_string[a].child = "sysmon"}) = 2

-----------------------------------------------------------------------------
(* Calls in which no task is materialized.                                  *)

\* ensure_task_times_comply has returned
Ensured == pc \in {"ensured", "random_tasks", "resman_fix", "resman_pump", "update", "auto", "finalize", "done", "raised"}

\* the document holds no resman, sysmon or comm event
NoTaskEvent(rootSeq) ==
    \A a \in 1..Len(rootSeq) : rootSeq[a].child \notin {"resman", "sysmon", "comm"}

\* np.arange(5, session_duration - total_auto_minutes * 60 - 5) is empty, so
\* that the draw of the automation offset raises before the bracketing step
AutoWindowEmpty == session_duration_seconds - params.total_auto_minutes * 60 - 5 <= 5

\* the call has ended in the error of the step that ends it when the document
\* holds no comm event
EndedInError ==
    /\ pc = "raised"
    /\ raised = IF AutoWindowEmpty THEN "ValueError" ELSE "IndexError"

\* no label of the assignment is a communication
NoCommLabel == \A k \in 1..Len(task_types) : TaskTypeParts(task_types[k])[1] # "comm"

-----------------------------------------------------------------------------
(* SpecMaterialize: _generate_random_tasks on assignments that              *)
(* ensure_task_times_comply accepted, from the state _generate_tasks calls  *)
(* it in.  SpecMaterializeFair adds that a draw whose outcome stays         *)
(* possible is eventually made.                                             *)

\* two minutes, events at 5, 10, ..., 55: eight pump failures of 51 seconds,
\* a light and two communications
CallEightPumps ==
    Arguments(NoSeed, 2, 5, 42, 51, 52, 40, 20, 5, <<8, 1, 1, 1, 0>>, 0,
              SubSeq(OwnStems, 1, 1), SubSeq(OtherStems, 1, 1))

\* one minute, events at 10, 20, 30: a scale between two pump failures
CallPumpsAndScale ==
    Arguments(NoSeed, 1, 10, 11, 22, 23, 40, 35, 15, <<2, 0, 0, 0, 1>>, 0,
              SubSeq(OwnStems, 1, 1), <<>>)

\* the calls whose materialization is followed: the arguments, the gaps
\* np.random.choice returned to generate_random_events and the order
\* ensure_task_times_comply left the labels in
MaterializeInputs ==
    { [call  |-> CallEightPumps,
       diffs |-> [k \in 1..24 |-> IF k <= 11 THEN 5 ELSE 41],
       types |-> <<"resman", "resman", "comm-own", "resman", "resman", "sysmon-light",
                   "resman", "resman", "comm-other", "resman", "resman">>],
      [call  |-> CallPumps,
       diffs |-> [k \in 1..6 |-> 10],
       types |-> <<"resman", "comm-own", "resman">>],
      [call  |-> CallPumpsAndScale,
       diffs |-> [k \in 1..6 |-> 10],
       types |-> <<"resman", "sysmon-scale", "resman">>],
      [call  |-> CallTruncated,
       diffs |-> [k \in 1..5 |-> 12],
       types |-> <<"comm-own", "resman">>] }

\* b holds the labels of a in some order
IsShuffleOf(a, b) ==
    /\ Len(a) = Len(b)
    /\ \A label \in TaskTypes :
          Cardinality({k \in 1..Len(a) : a[k] = label})
              = Cardinality({k \in 1..Len(b) : b[k] = label})

\* the labels _adjust_task_types returns when it has nothing to pad
Truncated(types, times) ==
    IF Len(types) > Len(times) THEN SubSeq(types, 1, Len(times)) ELSE types

\* the state in which _generate_tasks calls _generate_random_tasks
InitMaterialize ==
    /\ pc = "random_tasks"
    /\ CodecIdle
    /\ NpUnseeded
    /\ SaveIdle
    /\ ScenarioIdle
    /\ ImportIdle
    /\ \E input \in MaterializeInputs :
          LET duration == input.call.session_duration_minutes * 60
              times    == EventTimesOf(input.diffs, duration)
              labels   == generate_task_types(input.call.n_pump_failures,
                              input.call.n_own_comm, input.call.n_other_comm,
                              input.call.n_green_red_issues, input.call.n_systems_up_down)
          IN  /\ Len(input.diffs) =
                     RoundedQuotient(duration, input.call.min_seconds_event_diff)
              /\ Len(labels) >= Len(times)
              /\ Len(input.types) = Len(times)
              /\ IsShuffleOf(Truncated(labels, times), input.types)
              /\ _check_task_times_comply(input.types, times,
                                          input.call.seconds_before_comm_stop,
                                          input.call.seconds_after_comm_start,
                                          input.call.min_seconds_fail_fix_resman, duration)
              /\ params = input.call
              /\ session_duration_seconds = duration
              /\ event_times = times
              /\ event_times_given = times
              /\ task_types = input.types
              /\ task_types_given = Truncated(labels, times)
              /\ n_task_types = Len(labels)
              /\ n_event_times = Len(times)
              /\ comm_stems_per_ship =
                    [ship \in Ships |-> IF ship = "OWN" THEN input.call.comm_stems["own"]
                                        ELSE input.call.comm_stems["other"]]
    /\ task_times_comply = TRUE
    /\ attempts = 1
    /\ n_attempts_budget = MaxAttempts
    /\ root = AppendEvents(<<>>, 0,
                  InitialEvents
                  \o <<Event(<<"0", ":", "0", "0", ":", "0", "0">>, "control", <<"START">>)>>)
    /\ n_inserted = 3
    /\ pump_failed_dict = [pump \in PumpKeys |-> {}]
    /\ task_index = 1
    /\ resman = NoResman
    /\ xml_string = <<>>
    /\ raised = None
    /\ run = 0
    /\ first_xml_string = <<>>
    /\ warnings = <<>>

NextMaterialize ==
    \/ RandomTasksDone
    \/ ResmanDrawFix
    \/ ResmanDrawPump
    \/ GenerateSysmonTask
    \/ GenerateCommTask

SpecMaterialize == InitMaterialize /\ [][NextMaterialize]_vars

\* the fix-time loop is running: its first draw or a redraw is next
FixLoopRunning == AtTask("resman") \/ pc = "resman_fix"

\* np.random.choice can return a gap that ends the fix-time loop
GapDrawable ==
    \E diff_seconds_fail_fix \in
          params.min_seconds_fail_fix_resman..(params.max_seconds_fail_fix_resman - 1) :
       diff_seconds_fail_fix + event_times[task_index] < session_duration_seconds - 1

\* the draw of the unit-selection loop that ends the loop
ResmanPumpSelected == ResmanDrawPump /\ pc' = "random_tasks"

\* the for loop of _generate_random_tasks is at a task without a loop of its
\* own, or at its end
ForLoopAtStep ==
    AtTask("sysmon") \/ AtTask("comm") \/ (pc = "random_tasks" /\ task_index > ZipLen)

\* fair random draws: an outcome that stays possible in every iteration of a
\* loop is drawn in some iteration (the fix-time loop does not run forever
\* with a gap to draw that ends it, and the draw of a pump that did not fail
\* is made if it stays possible), and the for loop of _generate_random_tasks
\* goes on
SpecMaterializeFair ==
    /\ SpecMaterialize
    /\ []<>~(FixLoopRunning /\ GapDrawable)
    /\ WF_vars(ResmanPumpSelected)
    /\ []<>~ForLoopAtStep

\* _generate_resman_task is running
InResmanTask == pc \in {"resman_fix", "resman_pump"}

\* the fix-time loop has a gap to draw that ends it
AdmissibleGap ==
    AtTask("resman") \/ pc = "resman_fix"
        => event_times[task_index] + params.min_seconds_fail_fix_resman
              <= session_duration_seconds - 2

\* the unit-selection loop has a pump to draw that ends it
SelectableUnit == pc = "resman_pump" => \E pump \in DrawablePumps : PumpDidNotFail(pump)

\* C25: under fair random draws every call of _generate_resman_task on an
\* assignment the checker accepted returns: the fix-time loop and the
\* unit-selection loop both end
C25_MaterializationTerminates == InResmanTask ~> pc = "random_tasks"

-----------------------------------------------------------------------------
(* The task counts of the documents generate_and_save_xml writes.           *)

\* the generator returned a document generate_and_save_xml writes: its loop
\* ends, and a file is written, only on equal counts
Writable == Returned /\ n_task_types = n_event_times

\* the positions of the events of a document that satisfy Is
Positions(document, Is(_)) == {a \in 1..Len(document) : Is(document[a])}

IsResmanFail(event) == event.child = "resman" /\ event.payload[1] = "fail"

IsResmanFix(event) == event.child = "resman" /\ event.payload[1] = "fix"

IsComm(event) == event.child = "comm"

IsSysmonLight(event) ==
    /\ event.child = "sysmon"
    /\ \E k \in 1..Len(event.payload) : event.payload[k] = "monitoringLightType"

IsSysmonScale(event) ==
    /\ event.child = "sysmon"
    /\ \E k \in 1..Len(event.payload) : event.payload[k] = "monitoringScaleNumber"

\* every fail event of the document has a fix event of its own: a later fix of
\* the same pump, no two fails sharing one
EachFailHasItsFix(document) ==
    LET fails == Positions(document, IsResmanFail)
        fixes == Positions(document, IsResmanFix)
    IN  /\ Cardinality(fixes) = Cardinality(fails)
        /\ \A a \in fails :
              \E b \in fixes : b > a /\ document[b].payload[2] = document[a].payload[2]

\* C28: a document generate_and_save_xml writes holds exactly n_pump_failures
\* resman fail events, each with one fix, n_own_comm + n_other_comm
\* communication events, n_green_red_issues sysmon light events and
\* n_systems_up_down sysmon scale events
C28_ExactTaskCounts ==
    Writable =>
        /\ Cardinality(Positions(xml_string, IsResmanFail)) = params.n_pump_failures
        /\ EachFailHasItsFix(xml_string)
        /\ Cardinality(Positions(xml_string, IsComm))
              = params.n_own_comm + params.n_other_comm
        /\ Cardinality(Positions(xml_string, IsSysmonLight)) = params.n_green_red_issues
        /\ Cardinality(Positions(xml_string, IsSysmonScale)) = params.n_systems_up_down

\* a document with two pump failures and a communication is returned on equal
\* counts
C28_Witness ==
    /\ Writable
    /\ params.n_pump_failures = 2
    /\ Cardinality(Positions(xml_string, IsResmanFix)) = 2
    /\ Cardinality(Positions(xml_string, IsComm)) = 1

-----------------------------------------------------------------------------
(* The brackets of the documents of matbii_generate_random_xml.             *)

\* the first event emitted is a START at first_comm - seconds_after_comm_start,
\* after 0, and the last one a STOP at last_comm + seconds_before_comm_stop,
\* before session_duration
ExactBoundaries(emitted, c) ==
    /\ Len(emitted) >= 2
    /\ emitted[1].action = "START"
    /\ emitted[1].time = c[1] - params.seconds_after_comm_start
    /\ emitted[1].time > 0
    /\ emitted[Len(emitted)].action = "STOP"
    /\ emitted[Len(emitted)].time = c[Len(c)] + params.seconds_before_comm_stop
    /\ emitted[Len(emitted)].time < session_duration_seconds

\* C29: in matbii_generate_random_xml the bracketing step takes no warning
\* branch: no warning is ever issued, the first COMM START is exactly
\* first_comm - seconds_after_comm_start (> 0) and the final COMM STOP exactly
\* last_comm + seconds_before_comm_stop (< session_duration)
C29_NoDegenerateBracketing ==
    /\ warnings = <<>>
    /\ Bracketed => ExactBoundaries(CommSchedEmitted(root), CommTimesOf(root))

\* the bracketing step has returned for two communications and two lights
C29_Witness ==
    /\ Bracketed
    /\ params = CallComms
    /\ Cardinality(CommEvents(root)) = 2
    /\ Cardinality(CommSched(root)) >= 2

\* the actions of the COMM sched events of a document, in document order
CommSchedActions(document) ==
    LET sched == Where([k \in 1..Len(document) |->
                           document[k].child = "sched" /\ document[k].payload[1] = "COMM"])
    IN  [n \in 1..Len(sched) |-> document[sched[n]].payload[2]]

\* START, STOP, START, STOP, ...: a START first, a STOP last
Alternating(actions) ==
    /\ Len(actions) >= 2
    /\ Len(actions) % 2 = 0
    /\ \A n \in 1..Len(actions) : actions[n] = IF n % 2 = 1 THEN "START" ELSE "STOP"

\* every comm event of the document has a COMM sched event before it, the
\* nearest of them a START, and one after it, the nearest of them a STOP
CommInsideBrackets(document) ==
    \A a \in Positions(document, IsComm) :
        LET before == {b \in CommSched(document) : b < a}
            after  == {b \in CommSched(document) : b > a}
        IN  /\ before # {}
            /\ after # {}
            /\ document[CHOOSE b \in before : \A o \in before : o <= b].payload[2] = "START"
            /\ document[CHOOSE b \in after : \A o \in after : o >= b].payload[2] = "STOP"

\* the parameters the alternation is claimed for
BracketsFit ==
    /\ params.seconds_before_comm_stop + params.seconds_after_comm_start
          <= params.min_seconds_to_indicate_no_comm
    /\ params.seconds_after_comm_start >= 1

\* C30: when seconds_before_comm_stop + seconds_after_comm_start <=
\* min_seconds_to_indicate_no_comm and seconds_after_comm_start >= 1, the COMM
\* sched events of the document matbii_generate_random_xml returns alternate
\* START, STOP, START, STOP, ..., a START first and a STOP last, and every
\* communication event lies after a COMM START and before the next COMM STOP
C30_BracketAlternation ==
    (Returned /\ BracketsFit) =>
        /\ Alternating(CommSchedActions(xml_string))
        /\ CommInsideBrackets(xml_string)

\* a document with two communications more than
\* min_seconds_to_indicate_no_comm apart is returned: two STARTs, two STOPs
C30_Witness ==
    /\ Returned
    /\ BracketsFit
    /\ Len(CommSchedActions(xml_string)) = 4
    /\ Cardinality(Positions(xml_string, IsComm)) = 2

=============================================================================
